---- MODULE Spec2Model ----
(***************************************************************************)
(* Model of the art-print inventory import pipeline                        *)
(* (sync/importer_smart.py, cleaning/cleaner.py, sync/import_report.py,    *)
(* db/models.py, db/manager.py).                                           *)
(*                                                                         *)
(* Cell values are strings.  Two values that are not text are written as   *)
(* reserved strings: None (Python None: the column is absent from the row) *)
(* and NaN (the float nan pandas yields for a blank cell).  Optional       *)
(* integers and dates are sequences of length 0 (None) or 1.               *)
(***************************************************************************)
EXTENDS Integers, Sequences, FiniteSets, TLC

None == "<None>"
NaN == "<NaN>"

\* Python truthiness of a cell value: None and '' are falsy, nan is truthy.
Truthy(v) == v # None /\ v # ""

\* Python str(value).
Str(v) == IF v = NaN THEN "nan" ELSE IF v = None THEN "None" ELSE v

(***************************************************************************)
(* String primitives (Python str methods used by the cleaner).             *)
(***************************************************************************)
UpperAlpha == "ABCDEFGHIJKLMNOPQRSTUVWXYZ"
LowerAlpha == "abcdefghijklmnopqrstuvwxyz"
Digits == "0123456789"
Whitespace == {" ", "\t", "\n", "\r"}

Char(s, i) == SubSeq(s, i, i)
Rest(s) == SubSeq(s, 2, Len(s))
IndexIn(c, alpha) ==
    IF \E i \in 1..Len(alpha) : Char(alpha, i) = c
    THEN CHOOSE i \in 1..Len(alpha) : Char(alpha, i) = c
    ELSE 0
IsUpper(c) == IndexIn(c, UpperAlpha) # 0
IsLower(c) == IndexIn(c, LowerAlpha) # 0
IsCased(c) == IsUpper(c) \/ IsLower(c)
IsDigit(c) == IndexIn(c, Digits) # 0
LowerChar(c) == IF IsUpper(c) THEN Char(LowerAlpha, IndexIn(c, UpperAlpha)) ELSE c
UpperChar(c) == IF IsLower(c) THEN Char(UpperAlpha, IndexIn(c, LowerAlpha)) ELSE c

RECURSIVE Lower(_)
Lower(s) == IF s = "" THEN "" ELSE LowerChar(Char(s, 1)) \o Lower(Rest(s))

RECURSIVE Upper(_)
Upper(s) == IF s = "" THEN "" ELSE UpperChar(Char(s, 1)) \o Upper(Rest(s))

RECURSIVE LStripChars(_, _)
LStripChars(s, cs) ==
    IF s # "" /\ Char(s, 1) \in cs THEN LStripChars(Rest(s), cs) ELSE s

RECURSIVE RStripChars(_, _)
RStripChars(s, cs) ==
    IF s # "" /\ Char(s, Len(s)) \in cs
    THEN RStripChars(SubSeq(s, 1, Len(s) - 1), cs) ELSE s

StripChars(s, cs) == RStripChars(LStripChars(s, cs), cs)
Strip(s) == StripChars(s, Whitespace)

\* s.replace(c, '') for a one-character c.
RECURSIVE Remove(_, _)
Remove(s, c) ==
    IF s = "" THEN ""
    ELSE (IF Char(s, 1) = c THEN "" ELSE Char(s, 1)) \o Remove(Rest(s), c)

\* s.split(sep) for a one-character sep: empty parts are kept.
RECURSIVE SplitOn(_, _)
SplitOn(s, sep) ==
    IF \E i \in 1..Len(s) : Char(s, i) = sep
    THEN LET i == CHOOSE j \in 1..Len(s) :
                     Char(s, j) = sep /\ \A k \in 1..(j - 1) : Char(s, k) # sep
         IN <<SubSeq(s, 1, i - 1)>> \o SplitOn(SubSeq(s, i + 1, Len(s)), sep)
    ELSE <<s>>

\* s.split(): split on runs of whitespace, no empty parts.
RECURSIVE Split(_)
Split(s) ==
    LET t == LStripChars(s, Whitespace) IN
    IF t = "" THEN <<>>
    ELSE IF \E i \in 1..Len(t) : Char(t, i) \in Whitespace
    THEN LET i == CHOOSE j \in 1..Len(t) :
                     Char(t, j) \in Whitespace
                     /\ \A k \in 1..(j - 1) : Char(t, k) \notin Whitespace
         IN <<SubSeq(t, 1, i - 1)>> \o Split(SubSeq(t, i + 1, Len(t)))
    ELSE <<t>>

RECURSIVE Join(_, _)
Join(ws, sep) ==
    IF ws = <<>> THEN ""
    ELSE IF Len(ws) = 1 THEN ws[1]
    ELSE ws[1] \o sep \o Join(Tail(ws), sep)

\* str.capitalize(): first character upper-cased, the rest lower-cased.
Capitalize(w) == IF w = "" THEN "" ELSE UpperChar(Char(w, 1)) \o Lower(Rest(w))

\* str.title(): a cased character is upper-cased when it follows an uncased
\* character (or starts the string) and lower-cased otherwise.
RECURSIVE TitleFrom(_, _)
TitleFrom(s, prevCased) ==
    IF s = "" THEN ""
    ELSE LET c == Char(s, 1) IN
         (IF prevCased THEN LowerChar(c) ELSE UpperChar(c))
             \o TitleFrom(Rest(s), IsCased(c))
Title(s) == TitleFrom(s, FALSE)

Contains(s, c) == \E i \in 1..Len(s) : Char(s, i) = c

\* int(text) for a run of decimal digits.
RECURSIVE DigitsValue(_)
DigitsValue(s) ==
    IF s = "" THEN 0
    ELSE 10 * DigitsValue(SubSeq(s, 1, Len(s) - 1)) + (IndexIn(Char(s, Len(s)), Digits) - 1)
AllDigits(s) == s # "" /\ \A i \in 1..Len(s) : IsDigit(Char(s, i))

(***************************************************************************)
(* Name canonicalizer (cleaning/cleaner.py).                               *)
(***************************************************************************)
\* The static table: <<lookup key, short name, full name>>.
PRINT_NAMES ==
    {
       <<"bembridge", "Bemb", "Bembridge">>,
       <<"bemlbsl", "Bemb LS", "Bembridge Lifeboat Station">>,
       <<"lifeboatstation", "Bemb LS", "Bembridge Lifeboat Station">>,
       <<"eastcowes", "E Cowes", "East Cowes">>,
       <<"westcowes", "W Cowes", "West Cowes">>,
       <<"cowesraceday", "Cowes RD", "Cowes Race Day">>,
       <<"hurst", "Hurst", "Hurst">>,
       <<"needles", "Needles", "Needles">>,
       <<"needleslighthouse", "Needles LH", "Needles Lighthouse">>,
       <<"nomanfort", "NMF", "No Man's Fort">>,
       <<"nomansfort", "NMF", "No Man's Fort">>,
       <<"osborne", "Osborne", "Osborne">>,
       <<"priory", "Priory", "Priory">>,
       <<"quarr", "Quarr", "Quarr">>,
       <<"quayrocks", "Quay Rks", "Quay Rocks">>,
       <<"quayrockslandscape", "Quay Rks L", "Quay Rocks Landscape">>,
       <<"roundtheisland", "RTI", "Round the Island">>,
       <<"stcatherines", "St Cath", "St Catherine's">>,
       <<"seagrove", "Seagrove", "Seagrove">>,
       <<"seaview", "Seaview", "Seaview">>,
       <<"seagv2l", "Seaview V2L", "Seaview V2 Large">>,
       <<"yarmouth", "Yarm", "Yarmouth">>,
       <<"yarmouthpier", "Yarm Pier", "Yarmouth Pier">>,
       <<"lymington", "Lym", "Lymington">>,
       <<"nerthek", "Nerthek", "Nerthek">>,
       <<"royalyachtsquadron", "RYS", "Royal Yacht Squadron">>,
       <<"rys", "RYS", "Royal Yacht Squadron">>,
       <<"etchells", "Etchells", "Etchells">>,
       <<"contessa32", "C32", "Contessa 32">>,
       <<"scooter", "Scooter", "Scooter">>,
       <<"sb20", "SB20", "SB20">>,
       <<"scows", "Scows", "Scows">>,
       <<"regatta", "Regatta", "Regatta">>,
       <<"classics", "Classics", "Classics">>,
       <<"classracinglym", "Class Lym", "Class Racing Lymington">>,
       <<"ducie", "Ducie", "Ducie">>,
       <<"corby", "Corby", "Corby">>,
       <<"galatea", "Galatea", "Galatea">>,
       <<"beatrice", "Beatrice", "Beatrice">>,
       <<"otto", "Otto", "Otto">>,
       <<"brambles", "Brambles", "Brambles">>,
       <<"amermaids", "Mermaids", "Mermaids">>,
       <<"a.mermaids", "Mermaids", "Mermaids">>,
       <<"mermaids", "Mermaids", "Mermaids">>,
       <<"svycmermaids", "SVYC Merm", "SVYC Mermaids">>,
       <<"bsvycm", "B SVYCM", "B SVYC Mermaids">>,
       <<"puffin", "Puffin", "Puffin">>,
       <<"wrongflagraceday", "Wrong Flag", "Wrong Flag Race Day">>,
       <<"miscellaneous", "Misc", "Miscellaneous">>
    }

PrintNameKeys == {e[1] : e \in PRINT_NAMES}
PrintNameEntry(key) == CHOOSE e \in PRINT_NAMES : e[1] = key

_normalize_lookup_key(name) ==
    Remove(Remove(Remove(Remove(Lower(name), "-"), "_"), " "), ".")

uppercase_words == {"RYS", "IOW", "UK", "V2", "V2L", "SVYC", "SB20"}
lowercase_words == {"and", "the", "of", "at", "in", "on"}

\* "'".join(p.capitalize() for p in clean_word.split("'"))
RECURSIVE CapitalizeAll(_)
CapitalizeAll(ps) ==
    IF ps = <<>> THEN <<>> ELSE <<Capitalize(Head(ps))>> \o CapitalizeAll(Tail(ps))

TitleWord(word, i) ==
    LET clean_word == StripChars(word, {".", ",", ";", ":"}) IN
    IF Upper(clean_word) \in uppercase_words THEN Upper(clean_word)
    ELSE IF i > 1 /\ Lower(clean_word) \in lowercase_words THEN Lower(clean_word)
    ELSE IF Contains(clean_word, "'")
         THEN Join(CapitalizeAll(SplitOn(clean_word, "'")), "'")
         ELSE Capitalize(clean_word)

RECURSIVE TitleWords(_, _)
TitleWords(words, i) ==
    IF i > Len(words) THEN <<>>
    ELSE <<TitleWord(words[i], i)>> \o TitleWords(words, i + 1)

_apply_title_casing(name) == Join(TitleWords(Split(name), 1), " ")

RECURSIVE Initials(_)
Initials(words) ==
    IF words = <<>> THEN ""
    ELSE (IF Head(words) # "" THEN UpperChar(Char(Head(words), 1)) ELSE "")
             \o Initials(Tail(words))

\* Returns <<short_name, full_name>>, <<None, None>> for an invalid input.
get_print_names(name) ==
    IF ~Truthy(name) \/ Lower(Str(name)) \in {"nan", "none", ""}
    THEN <<None, None>>
    ELSE LET clean_name == Strip(Str(name))
             lookup_key == _normalize_lookup_key(clean_name)
         IN IF lookup_key \in PrintNameKeys
            THEN <<PrintNameEntry(lookup_key)[2], PrintNameEntry(lookup_key)[3]>>
            ELSE LET full_name == _apply_title_casing(clean_name)
                     words == Split(full_name)
                 IN IF full_name = "" THEN <<None, None>>
                    ELSE IF Len(words) = 1 THEN <<full_name, full_name>>
                    ELSE <<Initials(words), full_name>>

standardize_print_name(name) == get_print_names(name)[2]

\* The specific mappings of standardize_distributor_name: <<key, name>>.
distributor_mapping ==
    { <<"kendalls", "Kendalls">>, <<"kendall", "Kendalls">>,
      <<"seaview gallery", "Seaview Gallery">>,
      <<"bramble and berry", "Bramble and Berry">>,
      <<"green buoy", "Green Buoy">>, <<"tapnell farm", "Tapnell Farm">>,
      <<"direct", "Direct">>, <<"unknown", "Unknown">>,
      <<"perera", "Perera">>, <<"framers", "Framers">> }

invalid_distributors == {"checked"}

standardize_distributor_name(name) ==
    IF ~Truthy(name) \/ Lower(Str(name)) \in {"nan", "none", ""}
    THEN None
    ELSE LET clean_name == Strip(Str(name))
             lookup_key == Lower(clean_name)
         IN IF Lower(clean_name) \in invalid_distributors THEN None
            ELSE IF \E e \in distributor_mapping : e[1] = lookup_key
            THEN (CHOOSE e \in distributor_mapping : e[1] = lookup_key)[2]
            ELSE Title(clean_name)

\* clean_boolean: total, no unknown result.
clean_boolean(value) ==
    IF ~Truthy(value) THEN FALSE
    ELSE Strip(Lower(Str(value))) \in {"checked", "true", "yes", "1"}

(***************************************************************************)
(* Field normalizers (cleaning/cleaner.py).                                *)
(***************************************************************************)
ErrorMarkers == {"nan", "none", "", "#error!"}

\* Text of an optionally signed run of digits, surrounding whitespace allowed
\* (what int(text) accepts within the modelled alphabet).
IsIntText(s) ==
    LET t == Strip(s) IN
    \/ AllDigits(t)
    \/ Len(t) > 1 /\ Char(t, 1) \in {"-", "+"} /\ AllDigits(Rest(t))
IntTextValue(s) ==
    LET t == Strip(s) IN
    IF Char(t, 1) = "-" THEN 0 - DigitsValue(Rest(t))
    ELSE IF Char(t, 1) = "+" THEN DigitsValue(Rest(t))
    ELSE DigitsValue(t)

\* Text of the form [sign]digits.digits, the decimal texts float() is given
\* here; int(float(text)) truncates toward zero.
IsDecimalText(s) ==
    LET t == Strip(s)
        u == IF t # "" /\ Char(t, 1) \in {"-", "+"} THEN Rest(t) ELSE t
        ps == SplitOn(u, ".")
    IN Len(ps) = 2 /\ (ps[1] # "" \/ ps[2] # "")
       /\ (ps[1] = "" \/ AllDigits(ps[1])) /\ (ps[2] = "" \/ AllDigits(ps[2]))
DecimalTextTrunc(s) ==
    LET t == Strip(s)
        neg == t # "" /\ Char(t, 1) = "-"
        u == IF t # "" /\ Char(t, 1) \in {"-", "+"} THEN Rest(t) ELSE t
        whole == DigitsValue(SplitOn(u, ".")[1])
    IN IF neg THEN 0 - whole ELSE whole

\* Text of the form decimal e [sign]digits, the exponent texts float() is
\* given here.  float() gives inf once the value passes the largest double:
\* a mantissa of at least 1 with a decimal exponent of FloatOverflowExponent
\* or more.
FloatOverflowExponent == 309
IsExponentText(s) ==
    LET ps == SplitOn(Lower(Strip(s)), "e") IN
    /\ Len(ps) = 2
    /\ IsDecimalText(ps[1]) /\ RStripChars(ps[1], Whitespace) = ps[1]
    /\ IsIntText(ps[2]) /\ Strip(ps[2]) = ps[2]
Mantissa(s) ==
    LET m == SplitOn(Lower(Strip(s)), "e")[1]
        u == IF Char(m, 1) \in {"-", "+"} THEN Rest(m) ELSE m
    IN [neg |-> Char(m, 1) = "-", whole |-> SplitOn(u, ".")[1], frac |-> SplitOn(u, ".")[2]]
Exponent(s) == IntTextValue(SplitOn(Lower(Strip(s)), "e")[2])
FloatIsInfinite(s) ==
    /\ IsExponentText(s)
    /\ DigitsValue(Mantissa(s).whole) > 0
    /\ Exponent(s) >= FloatOverflowExponent
RECURSIVE Zeros(_)
Zeros(n) == IF n <= 0 THEN "" ELSE "0" \o Zeros(n - 1)
\* int(float(text)) for a finite exponent text (exact below 2^53).
ExponentTextTrunc(s) ==
    LET m == Mantissa(s)
        e == Exponent(s)
        digits == IF e >= 0 THEN m.whole \o SubSeq(m.frac \o Zeros(e), 1, e)
                  ELSE SubSeq(m.whole, 1, Len(m.whole) + e)
    IN IF m.neg THEN 0 - DigitsValue(digits) ELSE DigitsValue(digits)

\* clean_integer leaves by an exception: int(float(value)) of an infinite
\* float raises OverflowError, which the except clause does not name.
clean_integer_raises(value) ==
    /\ Truthy(value) /\ Lower(Str(value)) \notin ErrorMarkers
    /\ Contains(Str(value), ".")
    /\ FloatIsInfinite(Str(value))

\* clean_integer: <<n>> or <<>> (None).
clean_integer(value) ==
    IF ~Truthy(value) \/ Lower(Str(value)) \in ErrorMarkers THEN <<>>
    ELSE IF Contains(Str(value), ".")
         THEN (IF IsDecimalText(Str(value)) THEN <<DecimalTextTrunc(Str(value))>>
               ELSE IF IsExponentText(Str(value)) /\ ~FloatIsInfinite(Str(value))
               THEN <<ExponentTextTrunc(Str(value))>>
               ELSE <<>>)
         ELSE (IF IsIntText(Str(value)) THEN <<IntTextValue(Str(value))>> ELSE <<>>)

\* clean_text: the stripped text, or None.
clean_text(value) ==
    IF ~Truthy(value) \/ Lower(Str(value)) \in {"nan", "none", "#error!"} THEN None
    ELSE Strip(Str(value))

\* s.replace(old, new), leftmost non-overlapping occurrences.
RECURSIVE ReplaceAll(_, _, _)
ReplaceAll(s, old, new) ==
    IF Len(s) < Len(old) THEN s
    ELSE IF SubSeq(s, 1, Len(old)) = old
         THEN new \o ReplaceAll(SubSeq(s, Len(old) + 1, Len(s)), old, new)
         ELSE Char(s, 1) \o ReplaceAll(Rest(s), old, new)

HasSub(s, sub) == \E i \in 1..(Len(s) - Len(sub) + 1) : SubSeq(s, i, i + Len(sub) - 1) = sub

\* Calendar (datetime.date).
IsLeap(y) == (y % 4 = 0 /\ y % 100 # 0) \/ y % 400 = 0
DaysInMonth(y, m) ==
    IF m = 2 THEN (IF IsLeap(y) THEN 29 ELSE 28)
    ELSE IF m \in {4, 6, 9, 11} THEN 30 ELSE 31
RECURSIVE DaysBeforeMonth(_, _)
DaysBeforeMonth(y, m) == IF m = 1 THEN 0 ELSE DaysBeforeMonth(y, m - 1) + DaysInMonth(y, m - 1)
\* date(y, m, d).toordinal()
ToOrdinal(y, m, d) ==
    (y - 1) * 365 + ((y - 1) \div 4) - ((y - 1) \div 100) + ((y - 1) \div 400)
        + DaysBeforeMonth(y, m) + d
ValidDate(y, m, d) == y >= 1 /\ m \in 1..12 /\ d >= 1 /\ d <= DaysInMonth(y, m)

\* strptime directives: %m and %d take one or two digits, %Y exactly four.
IsMonthText(s) == AllDigits(s) /\ Len(s) <= 2 /\ DigitsValue(s) \in 1..12
IsDayText(s) == AllDigits(s) /\ Len(s) <= 2 /\ DigitsValue(s) \in 1..31
IsYearText(s) == AllDigits(s) /\ Len(s) = 4

MonthNames ==
    <<"january", "february", "march", "april", "may", "june", "july",
      "august", "september", "october", "november", "december">>
MonthAbbrs ==
    <<"jan", "feb", "mar", "apr", "may", "jun", "jul", "aug", "sep", "oct", "nov", "dec">>
IndexOfWord(w, ws) ==
    IF \E i \in 1..Len(ws) : ws[i] = w THEN CHOOSE i \in 1..Len(ws) : ws[i] = w ELSE 0

MakeDate(y, m, d) == IF ValidDate(y, m, d) THEN <<ToOrdinal(y, m, d)>> ELSE <<>>

\* One strptime attempt per format: <<ordinal>> or <<>> (ValueError).
TryNumeric(date_str, sep, order) ==
    LET ps == SplitOn(date_str, sep) IN
    IF Len(ps) # 3 THEN <<>>
    ELSE LET mt == ps[order[1]]  dt == ps[order[2]]  yt == ps[order[3]] IN
         IF IsMonthText(mt) /\ IsDayText(dt) /\ IsYearText(yt)
         THEN MakeDate(DigitsValue(yt), DigitsValue(mt), DigitsValue(dt))
         ELSE <<>>
TryNamed(date_str, names) ==
    LET ws == Split(date_str) IN
    IF Len(ws) # 3 THEN <<>>
    ELSE LET m == IndexOfWord(Lower(ws[1]), names)
             dt == SubSeq(ws[2], 1, Len(ws[2]) - 1)
         IN IF m # 0 /\ ws[2] # "" /\ Char(ws[2], Len(ws[2])) = ","
               /\ IsDayText(dt) /\ IsYearText(ws[3])
            THEN MakeDate(DigitsValue(ws[3]), m, DigitsValue(dt))
            ELSE <<>>

\* The formats of parse_date in their priority order.
DateAttempts(date_str) ==
    << TryNumeric(date_str, "/", <<1, 2, 3>>),      \* %m/%d/%Y
       TryNumeric(date_str, "/", <<2, 1, 3>>),      \* %d/%m/%Y
       TryNumeric(date_str, "-", <<2, 3, 1>>),      \* %Y-%m-%d
       TryNamed(date_str, MonthNames),              \* %B %d, %Y
       TryNamed(date_str, MonthAbbrs) >>            \* %b %d, %Y

FirstParsed(attempts) ==
    IF \E i \in 1..Len(attempts) : attempts[i] # <<>>
    THEN attempts[CHOOSE i \in 1..Len(attempts) :
                      attempts[i] # <<>> /\ \A j \in 1..(i - 1) : attempts[j] = <<>>]
    ELSE <<>>

\* parse_date: <<ordinal of the date>> or <<>> (None).
parse_date(value) ==
    IF ~Truthy(value) \/ Lower(Str(value)) \in ErrorMarkers THEN <<>>
    ELSE LET stripped == Strip(Str(value))
             date_str == IF HasSub(stripped, "1920")
                         THEN ReplaceAll(stripped, "1920", "2020") ELSE stripped
         IN FirstParsed(DateAttempts(date_str))

\* extract_edition_info: the pattern ^(.+?)\s*-\s*(-?\d+)$ on the stripped
\* text.  TailMatches(r) says r matches \s*-\s*(-?\d+)$ and NumberText(r) is
\* its group 2; group 1 is the shortest non-empty prefix whose rest matches.
AfterDash(r) ==
    LET a == LStripChars(r, Whitespace) IN
    IF a # "" /\ Char(a, 1) = "-" THEN <<LStripChars(Rest(a), Whitespace)>> ELSE <<>>
TailMatches(r) ==
    AfterDash(r) # <<>>
    /\ LET n == AfterDash(r)[1] IN
       \/ AllDigits(n)
       \/ Len(n) > 1 /\ Char(n, 1) = "-" /\ AllDigits(Rest(n))
NumberText(r) == AfterDash(r)[1]
PatternMatches(s) == \E k \in 1..Len(s) : TailMatches(SubSeq(s, k + 1, Len(s)))
PatternSplit(s) ==
    CHOOSE k \in 1..Len(s) :
        /\ TailMatches(SubSeq(s, k + 1, Len(s)))
        /\ \A j \in 1..(k - 1) : ~TailMatches(SubSeq(s, j + 1, Len(s)))

\* Returns <<print_name, edition_number>>; edition_number is <<n>> or <<>>.
extract_edition_info(edition_name) ==
    IF ~Truthy(edition_name) THEN <<None, <<>>>>
    ELSE LET s == Strip(edition_name) IN
         IF PatternMatches(s)
         THEN LET k == PatternSplit(s) IN
              << standardize_print_name(SubSeq(s, 1, k)),
                 <<IntTextValue(NumberText(SubSeq(s, k + 1, Len(s))))>> >>
         ELSE <<standardize_print_name(edition_name), <<>>>>

\* normalize_size: a total function into the three sizes.
normalize_size(value) ==
    IF ~Truthy(value) \/ Lower(Str(value)) \in {"nan", "none", "", "unknown"} THEN "Small"
    ELSE IF /\ HasSub(Lower(Strip(Str(value))), "extra")
            /\ HasSub(Lower(Strip(Str(value))), "large") THEN "Extra Large"
    ELSE IF HasSub(Lower(Strip(Str(value))), "large") THEN "Large"
    ELSE "Small"

\* normalize_frame_type: None for a missing or blank value.
normalize_frame_type(frame_type) ==
    IF ~Truthy(frame_type) \/ Lower(Str(frame_type)) \in {"nan", "none", ""} THEN None
    ELSE IF Lower(Strip(Str(frame_type))) \in {"ikea", "b&q", "framed", "frame"} THEN "Framed"
    ELSE IF Lower(Strip(Str(frame_type))) \in {"tube", "tube only", "tubed"} THEN "Tube only"
    ELSE IF Lower(Strip(Str(frame_type))) \in {"mounted", "mount", "unmounted"} THEN "Mounted"
    ELSE "Framed"

\* The tests of clean_edition_data that call record_default_applied.
SizeDefaultRecorded(original_size) ==
    ~Truthy(original_size) \/ Lower(Str(original_size)) \in {"nan", "none", "", "unknown"}
FrameDefaultRecorded(original_frame) ==
    ~Truthy(original_frame) \/ Lower(Str(original_frame)) \in {"nan", "none", ""}

(***************************************************************************)
(* Rows of the input files and the row cleaners.  A row is a function from *)
(* column names to cell values (row.to_dict()); Get is dict.get.           *)
(***************************************************************************)
Get(row, key) == IF key \in DOMAIN row THEN row[key] ELSE None

\* Python's "a or b" on an optional integer: None and 0 are both falsy.
OrElse(a, b) == IF a # <<>> /\ a[1] # 0 THEN a ELSE b

\* clean_print_data leaves by an exception of one of its normalizers.
clean_print_data_raises(row) == clean_integer_raises(Get(row, "Total Editions"))

\* clean_print_data: the keyword dictionary later handed to Print(**cleaned).
clean_print_data(row) ==
    LET names == get_print_names(Get(row, "Print Name")) IN
    [ airtable_id    |-> Get(row, "Record_id"),
      name           |-> names[2],
      short_name     |-> names[1],
      description    |-> clean_text(Get(row, "Description")),
      total_editions |-> clean_integer(Get(row, "Total Editions")),
      web_link       |-> clean_text(Get(row, "Web link")),
      notes          |-> clean_text(Get(row, "Notes")),
      image_urls     |-> <<>> ]

\* clean_distributor_data: the keyword dictionary handed to Distributor(**cleaned).
clean_distributor_data(row) ==
    [ airtable_id           |-> Get(row, "Record_id"),
      name                  |-> standardize_distributor_name(Get(row, "Name")),
      commission_percentage |-> None,
      notes                 |-> clean_text(Get(row, "Notes")),
      contact_number        |-> clean_text(Get(row, "Contact Number")),
      web_address           |-> clean_text(Get(row, "Web address")),
      last_update_date      |-> parse_date(Get(row, "Date")) ]

\* clean_edition_data, restricted to the fields the reconciler's decisions and
\* the post-processing rules read.
clean_edition_data(row) ==
    LET info == extract_edition_info(Get(row, "Print - Edition"))
        print_name == IF Truthy(info[1]) THEN info[1]
                      ELSE standardize_print_name(Get(row, "Print"))
    IN [ airtable_id          |-> Get(row, "record_id"),
         edition_display_name |-> Get(row, "Print - Edition"),
         print_name           |-> print_name,
         edition_number       |-> OrElse(info[2], clean_integer(Get(row, "Print Edition"))),
         size                 |-> normalize_size(Get(row, "Size")),
         frame_type           |-> normalize_frame_type(Get(row, "Frame")),
         is_sold              |-> clean_boolean(Get(row, "Sold")),
         is_settled           |-> clean_boolean(Get(row, "Settled")),
         date_sold            |-> parse_date(Get(row, "Date Sold")),
         distributor_name     |-> standardize_distributor_name(Get(row, "Distributor")) ]

(***************************************************************************)
(* Declarative models (db/models.py).  The declarative constructor accepts *)
(* a keyword only if it names an attribute of the mapped class.            *)
(***************************************************************************)
PrintAttributes ==
    {"id", "airtable_id", "name", "description", "total_editions", "web_link",
     "notes", "image_urls", "last_synced_at", "sync_version", "is_active",
     "created_at", "updated_at", "editions"}
DistributorAttributes ==
    {"id", "airtable_id", "name", "commission_percentage", "notes",
     "contact_number", "web_address", "last_update_date",
     "last_synced_at", "sync_version", "is_active", "created_at", "updated_at",
     "editions"}
EditionAttributes ==
    {"id", "airtable_id", "print_id", "distributor_id", "edition_number",
     "edition_display_name", "size", "frame_type", "variation", "is_printed",
     "is_sold", "is_settled", "is_stock_checked", "to_check_in_detail",
     "retail_price", "date_sold", "commission_percentage", "date_in_gallery",
     "notes", "payment_note", "last_synced_at", "sync_version", "is_active",
     "created_at", "updated_at", "print", "distributor"}

\* TRUE iff Model(**kwargs) returns an object; otherwise it raises TypeError.
Constructs(attributes, kwargs) == DOMAIN kwargs \subseteq attributes

(***************************************************************************)
(* Storage (PostgreSQL behind SQLAlchemy).  A table is a set of rows; the  *)
(* database is a record of the three tables.  Primary keys come from one   *)
(* serial counter per table and are only required to be fresh.             *)
(***************************************************************************)
TableNames == {"prints", "distributors", "editions"}
EmptyTables == [prints |-> {}, distributors |-> {}, editions |-> {}]

\* Column widths of Edition.airtable_id and Edition.edition_display_name.
AirtableIdWidth == 20
DisplayNameWidth == 100

\* Variants of the DELETE statement that leave rows behind.
DeleteOnlyEditions(tables, name) == [tables EXCEPT !.editions = {}]
DeleteChildrenOnly(tables, name) ==
    IF name = "prints" THEN tables ELSE [tables EXCEPT ![name] = {}]

\* session.query(Model).delete(): DELETE FROM <table>.
DeleteAll(tables, name) == [tables EXCEPT ![name] = {}]

\* The foreign keys of editions reject deleting a row that is still referenced.
DeleteViolatesFK(tables, name) ==
    \/ name = "prints"
       /\ \E e \in tables.editions : \E p \in tables.prints : p.id = e.print_id
    \/ name = "distributors" /\ \E e \in tables.editions : e.distributor_id # <<>>

\* An Edition whose print or distributor is not stored.
Dangling(tables) ==
    { e \in tables.editions :
        \/ ~\E p \in tables.prints : p.id = e.print_id
        \/ e.distributor_id # <<>>
           /\ ~\E d \in tables.distributors : d.id = e.distributor_id[1] }

\* Unique indexes of prints and of distributors: airtable_id, name.
NamedRowConflicts(table, obj) ==
    \E r \in table : r.airtable_id = obj.airtable_id \/ r.name = obj.name

\* The flush at session.commit(): the pending objects are inserted in the
\* order they were added; the first unique violation raises IntegrityError.
RECURSIVE Flush(_, _, _)
Flush(table, pending, nid) ==
    IF pending = <<>> THEN [ok |-> TRUE, table |-> table, nid |-> nid]
    ELSE IF NamedRowConflicts(table, Head(pending))
         THEN [ok |-> FALSE, table |-> table, nid |-> nid]
         ELSE Flush(table \cup {[id |-> nid,
                                 airtable_id |-> Head(pending).airtable_id,
                                 name |-> Head(pending).name]},
                    Tail(pending), nid + 1)

\* Unique indexes of editions: airtable_id, and (print_id, edition_number)
\* where a NULL edition number never conflicts.
ArbiterConflict(table, m) == \E e \in table : e.airtable_id = m.airtable_id
\* Variant: a table without the unique_print_edition constraint.
NoPrintEditionIndex(table, m) == FALSE
PrintEditionConflict(table, m) ==
    \E e \in table : /\ e.print_id = m.print_id
                     /\ m.edition_number # <<>>
                     /\ e.edition_number = m.edition_number
FitsColumns(m) ==
    Len(m.airtable_id) <= AirtableIdWidth /\ Len(m.edition_display_name) <= DisplayNameWidth

EditionRowOf(m, nid) ==
    [ id                   |-> nid,
      airtable_id          |-> m.airtable_id,
      print_id             |-> m.print_id,
      distributor_id       |-> m.distributor_id,
      edition_number       |-> m.edition_number,
      edition_display_name |-> m.edition_display_name,
      is_sold              |-> m.is_sold,
      is_settled           |-> m.is_settled,
      date_sold            |-> m.date_sold,
      src                  |-> m.src ]

\* INSERT ... VALUES ... ON CONFLICT <target> DO NOTHING, row by row in the
\* order of the VALUES list.  With target "airtable_id" only that index
\* arbitrates and a violation of the other one raises; with target "any"
\* every unique violation skips the row.
RECURSIVE InsertRows(_, _, _, _)
InsertRows(table, ms, nid, target) ==
    IF ms = <<>> THEN [ok |-> TRUE, table |-> table, nid |-> nid]
    ELSE LET m == Head(ms) IN
         IF ~FitsColumns(m) THEN [ok |-> FALSE, table |-> table, nid |-> nid]
         ELSE IF ArbiterConflict(table, m) THEN InsertRows(table, Tail(ms), nid, target)
         ELSE IF PrintEditionConflict(table, m)
              THEN (IF target = "any" THEN InsertRows(table, Tail(ms), nid, target)
                    ELSE [ok |-> FALSE, table |-> table, nid |-> nid])
         ELSE InsertRows(table \cup {EditionRowOf(m, nid)}, Tail(ms), nid + 1, target)

\* Variant: a statement that inserts every row of the VALUES list (no conflict
\* clause, no unique index consulted).
RECURSIVE InsertEveryRow(_, _, _)
InsertEveryRow(table, ms, nid) ==
    IF ms = <<>> THEN [ok |-> TRUE, table |-> table, nid |-> nid]
    ELSE InsertEveryRow(table \cup {EditionRowOf(Head(ms), nid)}, Tail(ms), nid + 1)

\* The raw statement of _bulk_insert_editions.
ExecuteValues(table, ms, nid) == InsertRows(table, ms, nid, "airtable_id")

\* The fallback statement insert(Edition).values(...).on_conflict_do_nothing().
OnConflictDoNothing(table, ms, nid) == InsertRows(table, ms, nid, "any")

\* Variant of the method below that reports every submitted row as inserted.
ReportEveryRowInserted(table, ms, nid) ==
    LET raw == ExecuteValues(table, ms, nid)
        res == IF raw.ok THEN raw ELSE OnConflictDoNothing(table, ms, nid)
    IN IF ms = <<>> THEN [ok |-> TRUE, table |-> table, nid |-> nid, inserted |-> 0]
       ELSE IF res.ok
            THEN [ok |-> TRUE, table |-> res.table, nid |-> res.nid, inserted |-> Len(ms)]
            ELSE [ok |-> FALSE, table |-> table, nid |-> nid, inserted |-> 0]

\* _bulk_insert_editions: ok = FALSE when the fallback raises too; inserted is
\* the method's return value.  A failed statement leaves the table as it was.
_bulk_insert_editions(table, ms, nid) ==
    LET raw == ExecuteValues(table, ms, nid)
        res == IF raw.ok THEN raw ELSE OnConflictDoNothing(table, ms, nid)
    IN IF ms = <<>> THEN [ok |-> TRUE, table |-> table, nid |-> nid, inserted |-> 0]
       ELSE IF res.ok
            THEN [ok |-> TRUE, table |-> res.table, nid |-> res.nid,
                  inserted |-> Cardinality(res.table) - Cardinality(table)]
            ELSE [ok |-> FALSE, table |-> table, nid |-> nid, inserted |-> 0]

(***************************************************************************)
(* Bounds of the explored inputs.                                          *)
(***************************************************************************)
MaxRuns == 2
MaxPrintRows == 2
MaxDistributorRows == 2
MaxSyncEditionRows == 1
MaxEditionRows == 3
\* Longest print file and edition file handed to the cleaner on its own.
MaxCleanerRows == 2
\* Rows per bulk statement (5000 in the source, scaled to the explored files).
batch_size == 2

\* Age in days from which an unsettled sale is auto-settled.
SettleAfterDays == 180

SeqsUpTo(S, n) == UNION {[1..k -> S] : k \in 0..n}

(***************************************************************************)
(* Input files.                                                            *)
(***************************************************************************)
PrintCells(id, name) == ("Record_id" :> id) @@ ("Print Name" :> name)
DistributorCells(id, name) == ("Record_id" :> id) @@ ("Name" :> name)
EditionCells(id, display, distributor, sold, settled, date) ==
    ("record_id" :> id) @@ ("Print - Edition" :> display) @@ ("Print" :> NaN)
    @@ ("Print Edition" :> NaN) @@ ("Distributor" :> distributor)
    @@ ("Sold" :> sold) @@ ("Settled" :> settled) @@ ("Date Sold" :> date)

PrintRows ==
    { PrintCells("rec1", "RYS"),
      PrintCells("rec2", "Royal Yacht Squadron"),
      PrintCells("rec3", NaN) }
DistributorRows ==
    { DistributorCells("dA", "kendall"),
      DistributorCells("dB", "Kendalls"),
      DistributorCells("dA", "direct old"),
      DistributorCells("dC", NaN) }
SyncEditionRows ==
    { EditionCells("recA", "RYS - 1", "kendall", NaN, NaN, NaN),
      EditionCells("recA", "Ghost - 2", "Nobody", "checked", NaN, "2024-01-02") }
EditionRows ==
    { EditionCells("recA", "RYS - 1", NaN, NaN, NaN, NaN),
      EditionCells("recB", "RYS - 1", NaN, NaN, NaN, NaN),
      EditionCells("recB", "rys - 2", "checked", NaN, NaN, NaN),
      EditionCells("recA", "Ghost - 1", NaN, NaN, NaN, NaN),
      EditionCells("recB", "nan - 5", NaN, NaN, NaN, NaN),
      EditionCells("recA", " - ", NaN, NaN, NaN, NaN),
      EditionCells("recC0123456789012345678", "RYS - 3", NaN, NaN, NaN, NaN),
      EditionCells("recA", "RYS - 1", "kendall", "checked", NaN, "01/03/2024"),
      EditionCells("recB", "rys - 2", "Nobody", "checked", NaN, "2024-01-02"),
      EditionCells("recA", "RYS - 1", "direct old", NaN, NaN, NaN),
      EditionCells("recB", "rys - 2", NaN, "checked", NaN, "January 4, 2024") }

\* Edition rows with their Size and Frame cells, and print rows by name, for
\* the cleaner on its own: recognized, unrecognized, blank and missing cells.
SizedEditionCells(id, display, size, frame, date) ==
    EditionCells(id, display, NaN, NaN, NaN, date) @@ ("Size" :> size) @@ ("Frame" :> frame)
CleanerEditionRows ==
    { SizedEditionCells("recA", "RYS - 1", "Large", "Tube only", NaN),
      SizedEditionCells("recB", "St Catherines - 87", NaN, "", "01/03/1920"),
      SizedEditionCells("recC", "RYS - 3", "Medium", "canvas", "2024-01-02"),
      SizedEditionCells("recD", "RYS - 4", " Extra Large", "IKEA", "1920-05-06"),
      SizedEditionCells("recE", "RYS - 5", "unknown", "Mounted", "March 3, 2021"),
      EditionCells("recF", "RYS - 6", NaN, NaN, NaN, NaN),
      EditionCells("recG", "NoMansFort - -5", NaN, NaN, NaN, NaN),
      ("Print Edition" :> "7") @@ EditionCells("recH", "RYS - 0", NaN, NaN, NaN, NaN),
      ("Print" :> "RYS") @@ EditionCells("recI", "Sunset Print", NaN, NaN, NaN, NaN) }
CleanerPrintRows ==
    { PrintCells("rec1", "RYS"),
      PrintCells("rec2", "BEMLBSL"),
      PrintCells("rec3", "NoMansFort "),
      PrintCells("rec4", "new print"),
      PrintCells("rec5", "Sunset"),
      PrintCells("rec6", NaN),
      ("Total Editions" :> "1.5e2") @@ PrintCells("rec7", "RYS"),
      ("Total Editions" :> "1.0e999") @@ PrintCells("rec8", "RYS") }

\* A file read without its record_id column: dict.get gives None for every row.
WithoutRecordId(f) ==
    [j \in DOMAIN f |-> [k \in (DOMAIN f[j]) \ {"record_id"} |-> f[j][k]]]

\* duplicate_handling_decisions.csv: <<>> when the file does not exist, else
\* <<rows>>; a row has the columns the file was written with.
DecisionCells(index, action) == ("index" :> index) @@ ("action" :> action)
NoDecisionFile == <<>>
SkipFirstRow == << <<DecisionCells(0, "SKIP")>> >>
KeepFirstSkipSecond == << <<DecisionCells(0, "KEEP"), DecisionCells(1, "SKIP")>> >>
\* A decisions file written without its action column.
WithoutActionColumn == << <<("index" :> 0), ("index" :> 1)>> >>
DecisionFiles == {NoDecisionFile, SkipFirstRow, KeepFirstSkipSecond, WithoutActionColumn}

\* pd.read_csv and the two column accesses succeed.
DecisionsLoad(decisions) ==
    /\ decisions # <<>>
    /\ \A k \in DOMAIN decisions[1] : {"index", "action"} \subseteq DOMAIN decisions[1][k]

\* Variant of the loader below that takes every listed row, whatever its action.
LoadEveryListedIndex(decisions) ==
    IF decisions = <<>> THEN {}
    ELSE {decisions[1][k]["index"] : k \in DOMAIN decisions[1]}

\* _load_skip_indices: the indices with action SKIP; the empty set when the
\* file is absent or reading it raises.
_load_skip_indices(decisions) ==
    IF DecisionsLoad(decisions)
    THEN {decisions[1][k]["index"] :
             k \in {n \in DOMAIN decisions[1] : decisions[1][n]["action"] = "SKIP"}}
    ELSE {}

\* The duplicates_skipped entries the loader records, one per SKIP row.
SkipEntry(row) ==
    (IF "print_edition" \in DOMAIN row THEN Str(row["print_edition"]) ELSE "Unknown")
    \o ": " \o (IF "decision" \in DOMAIN row THEN Str(row["decision"]) ELSE "Duplicate")
SkipEntries(decisions) ==
    IF DecisionsLoad(decisions)
    THEN LET skip_df == SelectSeq(decisions[1], LAMBDA row : row["action"] = "SKIP")
         IN  [k \in DOMAIN skip_df |-> SkipEntry(skip_df[k])]
    ELSE <<>>

\* Sets of row indices the loader can return.
SkipTables == {_load_skip_indices(d) : d \in DecisionFiles}

\* How the editions file arrives: with or without its record_id column, and
\* with which decisions file.
EditionInputKinds ==
    { [keyed |-> TRUE, decisions |-> NoDecisionFile],
      [keyed |-> TRUE, decisions |-> SkipFirstRow],
      [keyed |-> TRUE, decisions |-> KeepFirstSkipSecond],
      [keyed |-> TRUE, decisions |-> WithoutActionColumn],
      [keyed |-> FALSE, decisions |-> NoDecisionFile] }

\* Dates datetime.now().date() returns when the settlement rule runs.
RunDates == {ToOrdinal(2024, 7, 1), ToOrdinal(2024, 7, 2)}

\* Contents of the store before a run: empty, or left by earlier writers.
NamedRow(id, aid, name) == [id |-> id, airtable_id |-> aid, name |-> name]
StoredEdition(id, aid, pid, did, num, display) ==
    [ id |-> id, airtable_id |-> aid, print_id |-> pid, distributor_id |-> did,
      edition_number |-> num, edition_display_name |-> display, is_sold |-> FALSE,
      is_settled |-> FALSE, date_sold |-> <<>>, src |-> 0 ]
PriorStores ==
    { [ tables |-> EmptyTables,
        next_id |-> [prints |-> 1, distributors |-> 1, editions |-> 1] ],
      [ tables |-> [ prints |-> {NamedRow(1, "rec1", "Royal Yacht Squadron")},
                     distributors |-> {NamedRow(1, "dB", "Kendalls")},
                     editions |-> {StoredEdition(1, "recA", 1, <<1>>, <<1>>, "RYS - 1")} ],
        next_id |-> [prints |-> 2, distributors |-> 2, editions |-> 2] ] }

\* Stores at the start of the edition phase: no editions (as the clear phase
\* leaves the table), prints and distributors as committed by their phases.
EditionPhaseStores ==
    { [ tables |-> [ prints |-> {NamedRow(1, "rec1", "Royal Yacht Squadron")},
                     distributors |-> {NamedRow(1, "dA", "Kendalls")},
                     editions |-> {} ],
        next_id |-> [prints |-> 2, distributors |-> 2, editions |-> 1] ],
      [ tables |-> [ prints |-> {NamedRow(1, "rec1", "Royal Yacht Squadron")},
                     distributors |-> {NamedRow(1, "dA", "Kendalls"),
                                       NamedRow(2, "dB", "Direct Old")},
                     editions |-> {} ],
        next_id |-> [prints |-> 2, distributors |-> 3, editions |-> 1] ] }

(***************************************************************************)
(* State of one installation: the store, the importer process and its      *)
(* inputs.                                                                 *)
(***************************************************************************)
VARIABLES
    db,                     \* committed tables
    next_id,                \* serial counters of the three tables
    files,                  \* the input files of the run(s) and the decisions file
    skip_indices,           \* SmartImporter.skip_indices
    pc,                     \* position of the importer in sync_all
    run,                    \* number of sync_all invocations started
    i,                      \* position in the current loop (1-based)
    session,                \* open session: working tables and pending objects
    seen_names,             \* _sync_prints_smart.seen_names
    valid_df,               \* _sync_editions_smart.valid_df, as row positions
    lookups,                \* name -> id dictionaries of the edition phase
    batch_mappings,         \* _sync_editions_smart.batch_mappings
    stats,                  \* per-phase counters
    report,                 \* SmartImporter.import_report
    post_processing_stats,  \* SmartImporter.post_processing_stats
    today,                  \* date read by the settlement rule
    audit_doc,              \* docs/import_assumptions.md
    cleared,                \* history: tables deleted by the clear phase, in order
    abortedAt,              \* history: phase whose exception ended the run
    id_start,               \* history: serial counters when the run started
    first_result,           \* history: summary of the store after the first run
    pre_settle,             \* history: editions table before the settlement rule
    handled,                \* history: the edition rows processed, with their outcome
    calls,                  \* the create_artwork calls of the web clients
    error_handler,          \* an ImportErrorHandler: its two fields and its returns
    bulk_inserts            \* history: the row positions handed to each _bulk_insert_editions call

vars ==
    << db, next_id, files, skip_indices, pc, run, i, session, seen_names, valid_df,
       lookups, batch_mappings, stats, report, post_processing_stats, today,
       audit_doc, cleared, abortedAt, id_start, first_result, pre_settle, handled,
       calls, error_handler, bulk_inserts >>

\* The order of the three DELETE statements of the clear phase (and the
\* parent-to-child order, for comparison).
ReversedClearOrder == <<"prints", "distributors", "editions">>
ClearOrder == <<"editions", "distributors", "prints">>

EmptyReport ==
    [ defaults_applied             |-> [size |-> 0, frame_type |-> 0],
      date_corrections             |-> <<>>,
      duplicates_skipped           |-> <<>>,
      editions_missing_print       |-> <<>>,
      editions_missing_distributor |-> <<>>,
      duplicate_prints_skipped     |-> <<>> ]
\* The report after clean_edition_data has cleaned row: the default counters
\* (no statement of the cleaner or the importer adds a date correction).
RecordDefaults(rep, row) ==
    [rep EXCEPT !.defaults_applied =
        [ size       |-> @.size + (IF SizeDefaultRecorded(Get(row, "Size")) THEN 1 ELSE 0),
          frame_type |-> @.frame_type
                           + (IF FrameDefaultRecorded(Get(row, "Frame")) THEN 1 ELSE 0) ]]
\* The report as SmartImporter.__init__ leaves it.
InitialReport(decisions) == [EmptyReport EXCEPT !.duplicates_skipped = SkipEntries(decisions)]
ZeroStats ==
    [ prints       |-> [created |-> 0, skipped |-> 0],
      distributors |-> [created |-> 0, skipped |-> 0],
      editions     |-> [created |-> 0, skipped |-> 0, failed |-> 0,
                        duplicates_ignored |-> 0] ]
NoPostProcessing == [old_sales_settled |-> <<>>, direct_old_marked |-> <<>>]
EmptyLookups == [prints |-> <<>>, distributors |-> <<>>]

\* Row counts and canonical name sets of the store.
Summary(tables) ==
    [ prints            |-> Cardinality(tables.prints),
      distributors      |-> Cardinality(tables.distributors),
      editions          |-> Cardinality(tables.editions),
      print_names       |-> {p.name : p \in tables.prints},
      distributor_names |-> {d.name : d \in tables.distributors} ]

\* {r.name: r.id for r in session.query(Model).all()}
NameToId(table) == [n \in {r.name : r \in table} |-> (CHOOSE r \in table : r.name = n).id]
\* dict.get on such a dictionary: <<id>> or <<>> (None).
LookupGet(dict, key) == IF key \in DOMAIN dict THEN <<dict[key]>> ELSE <<>>

\* ImportErrorHandler.__init__; returned is the history of the values
\* handle_edition_error returned ("True", or "None" when it ran off its end).
NewErrorHandler == [error_counts |-> <<>>, handled_errors |-> <<>>, returned |-> <<>>]

\* The common part of the initial states: a fresh process, nothing started.
Fresh ==
    /\ pc = "idle"
    /\ run = 0
    /\ i = 1
    /\ seen_names = {}
    /\ valid_df = <<>>
    /\ lookups = EmptyLookups
    /\ batch_mappings = <<>>
    /\ stats = ZeroStats
    /\ report = InitialReport(files.decisions)
    /\ skip_indices = _load_skip_indices(files.decisions)
    /\ post_processing_stats = NoPostProcessing
    /\ today = 0
    /\ audit_doc = <<>>
    /\ cleared = <<>>
    /\ abortedAt = "none"
    /\ first_result = <<>>
    /\ pre_settle = {}
    /\ handled = <<>>
    /\ bulk_inserts = <<>>
    /\ calls = <<>>
    /\ error_handler = NewErrorHandler

\* Before the first sync_all: any prior store, any three files.
Init ==
    /\ \E prior \in PriorStores :
          /\ db = prior.tables
          /\ next_id = prior.next_id
          /\ id_start = prior.next_id
          /\ session = [tables |-> prior.tables, new |-> <<>>]
    /\ \E pf \in SeqsUpTo(PrintRows, MaxPrintRows) :
       \E df \in SeqsUpTo(DistributorRows, MaxDistributorRows) :
       \E ef \in SeqsUpTo(SyncEditionRows, MaxSyncEditionRows) :
       \E decisions \in {NoDecisionFile, SkipFirstRow} :
          files = [prints |-> pf, distributors |-> df, editions |-> ef,
                   decisions |-> decisions]
    /\ Fresh

\* Variant of the rollback below that also undoes the committed batches.
RollbackCommitted(committed) == {}
\* session.rollback() / connection.rollback(): only the open transaction is
\* undone, the committed rows stay.
Rollback(committed) == committed

\* The importer abandons the run: the open session is rolled back.
Abort(where, committed) ==
    /\ pc' = "aborted"
    /\ abortedAt' = where
    /\ session' = [tables |-> committed, new |-> <<>>]

\* sync_all is invoked (a new process: new importer, cleaner and report).
StartSync ==
    /\ pc \in {"idle", "done", "aborted"}
    /\ run < MaxRuns
    /\ run' = run + 1
    /\ pc' = "clear"
    /\ i' = 1
    /\ session' = [tables |-> db, new |-> <<>>]
    /\ seen_names' = {}
    /\ valid_df' = <<>>
    /\ lookups' = EmptyLookups
    /\ batch_mappings' = <<>>
    /\ stats' = ZeroStats
    /\ report' = InitialReport(files.decisions)
    /\ skip_indices' = _load_skip_indices(files.decisions)
    /\ post_processing_stats' = NoPostProcessing
    /\ cleared' = <<>>
    /\ abortedAt' = "none"
    /\ id_start' = next_id
    /\ first_result' = IF run = 1 THEN <<Summary(db)>> ELSE first_result
    /\ pre_settle' = {}
    /\ handled' = <<>>
    /\ bulk_inserts' = <<>>
    /\ UNCHANGED <<db, next_id, files, today, audit_doc>>
    /\ UNCHANGED <<calls, error_handler>>

\* One DELETE of the clear phase.
ClearStep ==
    /\ pc = "clear"
    /\ i <= Len(ClearOrder)
    /\ IF DeleteViolatesFK(session.tables, ClearOrder[i])
       THEN /\ Abort("clear", db)
            /\ UNCHANGED <<i, cleared>>
       ELSE /\ session' = [session EXCEPT !.tables = DeleteAll(@, ClearOrder[i])]
            /\ cleared' = Append(cleared, ClearOrder[i])
            /\ i' = i + 1
            /\ UNCHANGED <<pc, abortedAt>>
    /\ UNCHANGED <<db, next_id, files, skip_indices, run, seen_names, valid_df, lookups,
                   batch_mappings, stats, report, post_processing_stats, today,
                   audit_doc, id_start, first_result, pre_settle, handled>>
    /\ UNCHANGED <<calls, error_handler, bulk_inserts>>

\* session.commit() of the clear phase.
ClearCommit ==
    /\ pc = "clear"
    /\ i = Len(ClearOrder) + 1
    /\ db' = session.tables
    /\ pc' = "prints"
    /\ i' = 1
    /\ UNCHANGED <<next_id, files, skip_indices, run, session, seen_names, valid_df,
                   lookups, batch_mappings, stats, report, post_processing_stats,
                   today, audit_doc, cleared, abortedAt, id_start, first_result,
                   pre_settle, handled>>
    /\ UNCHANGED <<calls, error_handler, bulk_inserts>>

Bump(counters, phase, field) ==
    [counters EXCEPT ![phase] = [@ EXCEPT ![field] = @ + 1]]

\* The body of the row loop of _sync_prints_smart for a cleaned row.
PrintRowBody(cleaned) ==
    IF Truthy(cleaned.airtable_id) /\ Truthy(cleaned.name)
    THEN IF cleaned.name \in seen_names
         THEN /\ stats' = Bump(stats, "prints", "skipped")
              /\ report' = [report EXCEPT !.duplicate_prints_skipped =
                                              Append(@, cleaned.name)]
              /\ UNCHANGED <<seen_names, session>>
         ELSE /\ seen_names' = seen_names \cup {cleaned.name}
              /\ IF Constructs(PrintAttributes, cleaned)
                 THEN /\ session' = [session EXCEPT !.new = Append(@, cleaned)]
                      /\ stats' = Bump(stats, "prints", "created")
                 ELSE /\ stats' = Bump(stats, "prints", "skipped")
                      /\ UNCHANGED session
              /\ UNCHANGED report
    ELSE UNCHANGED <<seen_names, session, stats, report>>

\* One iteration of the row loop of _sync_prints_smart.
PrintRow ==
    /\ pc = "prints"
    /\ i <= Len(files.prints)
    /\ IF clean_print_data_raises(files.prints[i])
       THEN /\ stats' = Bump(stats, "prints", "skipped")
            /\ UNCHANGED <<seen_names, session, report>>
       ELSE PrintRowBody(clean_print_data(files.prints[i]))
    /\ i' = i + 1
    /\ UNCHANGED <<db, next_id, files, skip_indices, pc, run, valid_df, lookups,
                   batch_mappings, post_processing_stats, today, audit_doc, cleared,
                   abortedAt, id_start, first_result, pre_settle, handled>>
    /\ UNCHANGED <<calls, error_handler, bulk_inserts>>

\* session.commit() after the print loop; an IntegrityError leaves the method.
PrintsCommit ==
    /\ pc = "prints"
    /\ i = Len(files.prints) + 1
    /\ LET f == Flush(db.prints, session.new, next_id.prints) IN
       IF f.ok
       THEN /\ db' = [db EXCEPT !.prints = f.table]
            /\ next_id' = [next_id EXCEPT !.prints = f.nid]
            /\ session' = [tables |-> db', new |-> <<>>]
            /\ pc' = "distributors"
            /\ i' = 1
            /\ UNCHANGED abortedAt
       ELSE /\ Abort("prints", db)
            /\ UNCHANGED <<db, next_id, i>>
    /\ UNCHANGED <<files, skip_indices, run, seen_names, valid_df, lookups,
                   batch_mappings, stats, report, post_processing_stats, today,
                   audit_doc, cleared, id_start, first_result, pre_settle, handled>>
    /\ UNCHANGED <<calls, error_handler, bulk_inserts>>

\* The body of the row loop of _sync_distributors_smart for a cleaned row.
DistributorRowBody(cleaned) ==
    IF Truthy(cleaned.airtable_id) /\ Truthy(cleaned.name)
    THEN IF Constructs(DistributorAttributes, cleaned)
         THEN /\ session' = [session EXCEPT !.new = Append(@, cleaned)]
              /\ stats' = Bump(stats, "distributors", "created")
         ELSE /\ stats' = Bump(stats, "distributors", "skipped")
              /\ UNCHANGED session
    ELSE UNCHANGED <<session, stats>>

\* One iteration of the row loop of _sync_distributors_smart.
DistributorRow ==
    /\ pc = "distributors"
    /\ i <= Len(files.distributors)
    /\ DistributorRowBody(clean_distributor_data(files.distributors[i]))
    /\ i' = i + 1
    /\ UNCHANGED <<db, next_id, files, skip_indices, pc, run, seen_names, valid_df,
                   lookups, batch_mappings, report, post_processing_stats, today,
                   audit_doc, cleared, abortedAt, id_start, first_result, pre_settle,
                   handled>>
    /\ UNCHANGED <<calls, error_handler, bulk_inserts>>

\* session.commit() after the distributor loop.
DistributorsCommit ==
    /\ pc = "distributors"
    /\ i = Len(files.distributors) + 1
    /\ LET f == Flush(db.distributors, session.new, next_id.distributors) IN
       IF f.ok
       THEN /\ db' = [db EXCEPT !.distributors = f.table]
            /\ next_id' = [next_id EXCEPT !.distributors = f.nid]
            /\ session' = [tables |-> db', new |-> <<>>]
            /\ pc' = "lookups"
            /\ i' = 1
            /\ UNCHANGED abortedAt
       ELSE /\ Abort("distributors", db)
            /\ UNCHANGED <<db, next_id, i>>
    /\ UNCHANGED <<files, skip_indices, run, seen_names, valid_df, lookups,
                   batch_mappings, stats, report, post_processing_stats, today,
                   audit_doc, cleared, id_start, first_result, pre_settle, handled>>
    /\ UNCHANGED <<calls, error_handler, bulk_inserts>>

\* valid_df: rows whose display name is neither ' - ' nor missing and whose
\* index (0-based) is not a SKIP decision, as positions in the file.
RECURSIVE ValidRows(_, _, _)
ValidRows(f, skip, j) ==
    IF j > Len(f) THEN <<>>
    ELSE IF /\ Get(f[j], "Print - Edition") # " - "
            /\ Get(f[j], "Print - Edition") # NaN
            /\ (j - 1) \notin skip
         THEN <<j>> \o ValidRows(f, skip, j + 1)
         ELSE ValidRows(f, skip, j + 1)

\* Variant of the step below that may also run while the distributor phase
\* is still open.
LookupsBeforeDistributorsCommit ==
    /\ pc \in {"distributors", "lookups"}
    /\ valid_df' = ValidRows(files.editions, skip_indices, 1)
    /\ lookups' = [prints |-> NameToId(db.prints),
                   distributors |-> NameToId(db.distributors)]
    /\ batch_mappings' = <<>>
    /\ pc' = "editions"
    /\ i' = 1
    /\ UNCHANGED <<db, next_id, files, skip_indices, run, session, seen_names, stats,
                   report, post_processing_stats, today, audit_doc, cleared,
                   abortedAt, id_start, first_result, pre_settle, handled>>
    /\ UNCHANGED <<calls, error_handler, bulk_inserts>>

\* _sync_editions_smart up to the row loop: filter the file, read the lookups.
BuildLookups ==
    /\ pc = "lookups"
    /\ valid_df' = ValidRows(files.editions, skip_indices, 1)
    /\ lookups' = [prints |-> NameToId(db.prints),
                   distributors |-> NameToId(db.distributors)]
    /\ batch_mappings' = <<>>
    /\ pc' = "editions"
    /\ i' = 1
    /\ UNCHANGED <<db, next_id, files, skip_indices, run, session, seen_names, stats,
                   report, post_processing_stats, today, audit_doc, cleared,
                   abortedAt, id_start, first_result, pre_settle, handled>>
    /\ UNCHANGED <<calls, error_handler, bulk_inserts>>

\* Variant of the decision below that drops an unresolved print silently.
EditionDecisionSilentDrop(cleaned, dicts) ==
    IF ~Truthy(cleaned.airtable_id) THEN "skipped"
    ELSE IF ~Truthy(cleaned.print_name) THEN "failed"
    ELSE IF LookupGet(dicts.prints, cleaned.print_name) = <<>> THEN "failed"
    ELSE "mapped"

\* What the row loop of _sync_editions_smart does with a cleaned row.
EditionDecision(cleaned, dicts) ==
    IF ~Truthy(cleaned.airtable_id) THEN "skipped"
    ELSE IF ~Truthy(cleaned.print_name) THEN "failed"
    ELSE IF LookupGet(dicts.prints, cleaned.print_name) = <<>> THEN "missing_print"
    ELSE "mapped"

\* The mapping appended to batch_mappings: foreign keys resolved, lookup
\* fields removed; src is the position of the row in the file (history).
EditionMapping(cleaned, dicts, src) ==
    [ airtable_id          |-> cleaned.airtable_id,
      print_id             |-> dicts.prints[cleaned.print_name],
      distributor_id       |-> LookupGet(dicts.distributors, cleaned.distributor_name),
      edition_number       |-> cleaned.edition_number,
      edition_display_name |-> cleaned.edition_display_name,
      is_sold              |-> cleaned.is_sold,
      is_settled           |-> cleaned.is_settled,
      date_sold            |-> cleaned.date_sold,
      src                  |-> src ]

\* Variant of the test below without the "distributor_name and" part.
DistributorUnresolved(cleaned, dicts) ==
    LookupGet(dicts.distributors, cleaned.distributor_name) = <<>>

\* distributor_name and not cleaned['distributor_id']
DistributorMissing(cleaned, dicts) ==
    /\ Truthy(cleaned.distributor_name)
    /\ LookupGet(dicts.distributors, cleaned.distributor_name) = <<>>

\* The file positions of the rows of a list of mappings, in the list's order.
RowPositions(batch) == [k \in DOMAIN batch |-> batch[k].src]

\* The bulk insert of a full batch inside the row loop: res is the outcome of
\* _bulk_insert_editions(batch); its exception is caught by the loop.
InsertFullBatch(batch, res) ==
    /\ bulk_inserts' = Append(bulk_inserts, RowPositions(batch))
    /\ IF res.ok
       THEN /\ db' = [db EXCEPT !.editions = res.table]
            /\ next_id' = [next_id EXCEPT !.editions = res.nid]
            /\ stats' = [stats EXCEPT !.editions =
                           [@ EXCEPT !.created = @ + res.inserted,
                                     !.duplicates_ignored = @ + Len(batch) - res.inserted]]
            /\ batch_mappings' = <<>>
       ELSE /\ stats' = Bump(stats, "editions", "failed")
            /\ batch_mappings' = batch
            /\ UNCHANGED <<db, next_id>>

\* A row with resolved print: batch is batch_mappings with its mapping appended.
AppendMapping(cleaned, batch, rep) ==
    /\ report' = IF DistributorMissing(cleaned, lookups)
                 THEN [rep EXCEPT !.editions_missing_distributor =
                           Append(@, cleaned.edition_display_name)]
                 ELSE rep
    /\ IF Len(batch) < batch_size
       THEN /\ batch_mappings' = batch
            /\ UNCHANGED <<stats, db, next_id, bulk_inserts>>
       ELSE InsertFullBatch(batch, _bulk_insert_editions(db.editions, batch, next_id.editions))

\* The body of the row loop of _sync_editions_smart for a cleaned row; rep is
\* the report as clean_edition_data left it.
EditionRowBody(cleaned, decision, rep) ==
    /\ handled' = Append(handled, [src |-> valid_df[i], cleaned |-> cleaned,
                                   decision |-> decision])
    /\ IF decision = "skipped"
       THEN /\ stats' = Bump(stats, "editions", "skipped")
            /\ report' = rep
            /\ UNCHANGED <<batch_mappings, db, next_id, bulk_inserts>>
       ELSE IF decision = "failed"
       THEN /\ stats' = Bump(stats, "editions", "failed")
            /\ report' = rep
            /\ UNCHANGED <<batch_mappings, db, next_id, bulk_inserts>>
       ELSE IF decision = "missing_print"
       THEN /\ report' = [rep EXCEPT !.editions_missing_print =
                             Append(@, [edition    |-> cleaned.edition_display_name,
                                        print_name |-> cleaned.print_name])]
            /\ stats' = Bump(stats, "editions", "failed")
            /\ UNCHANGED <<batch_mappings, db, next_id, bulk_inserts>>
       ELSE AppendMapping(cleaned, Append(batch_mappings,
                                         EditionMapping(cleaned, lookups, valid_df[i])),
                          rep)

EditionRowOn(cleaned) ==
    EditionRowBody(cleaned, EditionDecision(cleaned, lookups),
                   RecordDefaults(report, files.editions[valid_df[i]]))

\* One iteration of the row loop of _sync_editions_smart, including the bulk
\* insert of a full batch.
EditionRow ==
    /\ pc = "editions"
    /\ i <= Len(valid_df)
    /\ EditionRowOn(clean_edition_data(files.editions[valid_df[i]]))
    /\ i' = i + 1
    /\ UNCHANGED <<files, skip_indices, pc, run, session, seen_names, valid_df, lookups,
                   post_processing_stats, today, audit_doc, cleared, abortedAt,
                   id_start, first_result, pre_settle>>
    /\ UNCHANGED <<calls, error_handler>>

\* The end of _sync_editions_smart: the remaining batch is inserted; an
\* exception of that insert leaves the method.
EditionsFinish ==
    /\ pc = "editions"
    /\ i = Len(valid_df) + 1
    /\ LET res == _bulk_insert_editions(db.editions, batch_mappings, next_id.editions) IN
       IF res.ok
       THEN /\ db' = [db EXCEPT !.editions = res.table]
            /\ next_id' = [next_id EXCEPT !.editions = res.nid]
            /\ stats' = IF batch_mappings = <<>> THEN stats
                        ELSE [stats EXCEPT !.editions =
                                 [@ EXCEPT !.created = @ + res.inserted,
                                           !.duplicates_ignored =
                                               @ + Len(batch_mappings) - res.inserted]]
            /\ pc' = "settle"
            /\ UNCHANGED <<abortedAt, session>>
       ELSE /\ Abort("editions", db)
            /\ db' = [db EXCEPT !.editions = Rollback(@)]
            /\ UNCHANGED <<next_id, stats>>
    /\ UNCHANGED <<files, skip_indices, run, i, seen_names, valid_df, lookups,
                   batch_mappings, report, post_processing_stats, today, audit_doc,
                   cleared, id_start, first_result, pre_settle, handled>>
    /\ bulk_inserts' = IF batch_mappings = <<>> THEN bulk_inserts
                       ELSE Append(bulk_inserts, RowPositions(batch_mappings))
    /\ UNCHANGED <<calls, error_handler>>

\* Variant of the filter below with date_sold <= six_months_ago.
IsUnsettledSaleUpTo(e, six_months_ago) ==
    /\ e.is_sold
    /\ ~e.is_settled
    /\ e.date_sold # <<>>
    /\ e.date_sold[1] <= six_months_ago

\* The filter of the settlement rule: sold, not settled, dated, and sold
\* before six_months_ago.
IsOldUnsettledSale(e, six_months_ago) ==
    /\ e.is_sold
    /\ ~e.is_settled
    /\ e.date_sold # <<>>
    /\ e.date_sold[1] < six_months_ago

\* _mark_old_sales_as_settled.
MarkOldSalesAsSettled ==
    /\ pc = "settle"
    /\ \E now \in RunDates :
          LET six_months_ago == now - SettleAfterDays
              old == {e \in db.editions : IsOldUnsettledSale(e, six_months_ago)}
          IN /\ today' = now
             /\ db' = [db EXCEPT !.editions =
                          {IF e \in old THEN [e EXCEPT !.is_settled = TRUE] ELSE e :
                               e \in db.editions}]
             /\ post_processing_stats' =
                    [post_processing_stats EXCEPT !.old_sales_settled = <<Cardinality(old)>>]
    /\ pre_settle' = db.editions
    /\ pc' = "legacy"
    /\ UNCHANGED <<next_id, files, skip_indices, run, i, session, seen_names, valid_df,
                   lookups, batch_mappings, stats, report, audit_doc, cleared,
                   abortedAt, id_start, first_result, handled>>
    /\ UNCHANGED <<calls, error_handler, bulk_inserts>>

\* Distributor.name.ilike('direct old'): case-insensitive equality.
ILikeDirectOld(name) == Lower(name) = "direct old"

\* The status-confidence of a stored edition (None when the row has none).
StatusConfidence(e) ==
    IF "status_confidence" \in DOMAIN e THEN e["status_confidence"] ELSE None

\* _mark_direct_old_as_legacy_unknown: returns 0 when no distributor matches;
\* otherwise the update names Edition.status_confidence, which raises
\* AttributeError unless the mapped class has that attribute.
MarkDirectOldAsLegacyUnknown ==
    /\ pc = "legacy"
    /\ LET matches == {d \in db.distributors : ILikeDirectOld(d.name)} IN
       IF matches = {}
       THEN /\ post_processing_stats' =
                   [post_processing_stats EXCEPT !.direct_old_marked = <<0>>]
            /\ pc' = "report"
            /\ UNCHANGED <<db, abortedAt, session>>
       ELSE IF "status_confidence" \in EditionAttributes
       THEN \E direct_old \in matches :
              LET linked == {e \in db.editions : e.distributor_id = <<direct_old.id>>} IN
              /\ db' = [db EXCEPT !.editions =
                           {IF e \in linked
                            THEN ("status_confidence" :> "legacy_unknown") @@ e
                            ELSE e : e \in db.editions}]
              /\ post_processing_stats' =
                     [post_processing_stats EXCEPT !.direct_old_marked =
                                                       <<Cardinality(linked)>>]
              /\ pc' = "report"
              /\ UNCHANGED <<abortedAt, session>>
       ELSE /\ Abort("legacy", db)
            /\ UNCHANGED <<db, post_processing_stats>>
    /\ UNCHANGED <<next_id, files, skip_indices, run, i, seen_names, valid_df, lookups,
                   batch_mappings, stats, report, today, audit_doc, cleared, id_start,
                   first_result, pre_settle, handled>>
    /\ UNCHANGED <<calls, error_handler, bulk_inserts>>

\* _generate_assumptions_file and the return of sync_all.
GenerateAssumptionsFile ==
    /\ pc = "report"
    /\ audit_doc' = <<[report |-> report, post_processing |-> post_processing_stats]>>
    /\ pc' = "done"
    /\ UNCHANGED <<db, next_id, files, skip_indices, run, i, session, seen_names,
                   valid_df, lookups, batch_mappings, stats, report,
                   post_processing_stats, today, cleared, abortedAt, id_start,
                   first_result, pre_settle, handled>>
    /\ UNCHANGED <<calls, error_handler, bulk_inserts>>

Next ==
    \/ StartSync
    \/ ClearStep
    \/ ClearCommit
    \/ PrintRow
    \/ PrintsCommit
    \/ DistributorRow
    \/ DistributorsCommit
    \/ BuildLookups
    \/ EditionRow
    \/ EditionsFinish
    \/ MarkOldSalesAsSettled
    \/ MarkDirectOldAsLegacyUnknown
    \/ GenerateAssumptionsFile

\* A whole installation: any number of sync_all runs up to MaxRuns.
Spec == Init /\ [][Next]_vars

\* The edition phase and the post-processing of one run, entered with the
\* prints and distributors tables as its input.
InitEd ==
    /\ \E store \in EditionPhaseStores :
          /\ db = store.tables
          /\ next_id = store.next_id
          /\ id_start = [prints |-> 1, distributors |-> 1, editions |-> 1]
          /\ session = [tables |-> store.tables, new |-> <<>>]
    /\ \E ef \in SeqsUpTo(EditionRows, MaxEditionRows) :
       \E kind \in EditionInputKinds :
          /\ files = [prints |-> <<>>, distributors |-> <<>>,
                      editions |-> IF kind.keyed THEN ef ELSE WithoutRecordId(ef),
                      decisions |-> kind.decisions]
          /\ skip_indices = _load_skip_indices(kind.decisions)
    /\ pc = "lookups"
    /\ run = 1
    /\ i = 1
    /\ seen_names = {}
    /\ valid_df = <<>>
    /\ lookups = EmptyLookups
    /\ batch_mappings = <<>>
    /\ stats = ZeroStats
    /\ report = InitialReport(files.decisions)
    /\ post_processing_stats = NoPostProcessing
    /\ today = 0
    /\ audit_doc = <<>>
    /\ cleared = ClearOrder
    /\ abortedAt = "none"
    /\ first_result = <<>>
    /\ pre_settle = {}
    /\ handled = <<>>
    /\ bulk_inserts = <<>>
    /\ calls = <<>>
    /\ error_handler = NewErrorHandler

NextEd ==
    \/ BuildLookups
    \/ EditionRow
    \/ EditionsFinish
    \/ MarkOldSalesAsSettled
    \/ MarkDirectOldAsLegacyUnknown
    \/ GenerateAssumptionsFile

EditionSpec == InitEd /\ [][NextEd]_vars

\* AirtableDataCleaner with its own report, applied to the rows of a print
\* file and then to the rows of an edition file.
InitCleaner ==
    /\ db = EmptyTables
    /\ next_id = [prints |-> 1, distributors |-> 1, editions |-> 1]
    /\ id_start = [prints |-> 1, distributors |-> 1, editions |-> 1]
    /\ session = [tables |-> EmptyTables, new |-> <<>>]
    /\ \E pf \in SeqsUpTo(CleanerPrintRows, MaxCleanerRows) :
       \E ef \in SeqsUpTo(CleanerEditionRows, MaxCleanerRows) :
          files = [prints |-> pf, distributors |-> <<>>, editions |-> ef,
                   decisions |-> NoDecisionFile]
    /\ pc = "clean_prints"
    /\ run = 0
    /\ i = 1
    /\ seen_names = {}
    /\ valid_df = <<>>
    /\ lookups = EmptyLookups
    /\ batch_mappings = <<>>
    /\ stats = ZeroStats
    /\ report = EmptyReport
    /\ skip_indices = {}
    /\ post_processing_stats = NoPostProcessing
    /\ today = 0
    /\ audit_doc = <<>>
    /\ cleared = <<>>
    /\ abortedAt = "none"
    /\ first_result = <<>>
    /\ pre_settle = {}
    /\ handled = <<>>
    /\ bulk_inserts = <<>>
    /\ calls = <<>>
    /\ error_handler = NewErrorHandler

CleanerUnchanged ==
    UNCHANGED << db, next_id, files, skip_indices, run, session, seen_names, valid_df,
                 lookups, batch_mappings, stats, post_processing_stats, today,
                 audit_doc, cleared, abortedAt, id_start, first_result, pre_settle >>

\* clean_print_data on the next print row.
CleanPrintRow ==
    /\ pc = "clean_prints"
    /\ i <= Len(files.prints)
    /\ handled' = Append(handled,
                         IF clean_print_data_raises(files.prints[i])
                         THEN [src |-> i, cleaned |-> [exception |-> "OverflowError"],
                               decision |-> "raised"]
                         ELSE [src |-> i, cleaned |-> clean_print_data(files.prints[i]),
                               decision |-> "print"])
    /\ i' = i + 1
    /\ UNCHANGED <<pc, report>>
    /\ CleanerUnchanged
    /\ UNCHANGED <<calls, error_handler, bulk_inserts>>

\* The print file is exhausted: on to the edition file.
CleanPrintsDone ==
    /\ pc = "clean_prints"
    /\ i > Len(files.prints)
    /\ pc' = "clean_editions"
    /\ i' = 1
    /\ UNCHANGED <<handled, report>>
    /\ CleanerUnchanged
    /\ UNCHANGED <<calls, error_handler, bulk_inserts>>

\* clean_edition_data on the next edition row, with the report calls it makes.
CleanEditionRow ==
    /\ pc = "clean_editions"
    /\ i <= Len(files.editions)
    /\ handled' = Append(handled, [src |-> i,
                                   cleaned |-> clean_edition_data(files.editions[i]),
                                   decision |-> "edition"])
    /\ report' = RecordDefaults(report, files.editions[i])
    /\ i' = i + 1
    /\ UNCHANGED pc
    /\ CleanerUnchanged
    /\ UNCHANGED <<calls, error_handler, bulk_inserts>>

CleanEditionsDone ==
    /\ pc = "clean_editions"
    /\ i > Len(files.editions)
    /\ pc' = "cleaned"
    /\ UNCHANGED <<i, handled, report>>
    /\ CleanerUnchanged
    /\ UNCHANGED <<calls, error_handler, bulk_inserts>>

NextCleaner ==
    \/ CleanPrintRow
    \/ CleanPrintsDone
    \/ CleanEditionRow
    \/ CleanEditionsDone

CleanerSpec == InitCleaner /\ [][NextCleaner]_vars

(***************************************************************************)
(* create_artwork (db/manager.py): the calls of concurrent web clients,    *)
(* each in its own session, beside the commits of one importer run.        *)
(* PostgreSQL runs the sessions at READ COMMITTED: a query sees the        *)
(* committed rows and the session's own, and an INSERT that meets an       *)
(* uncommitted row with the same unique key waits for that transaction.    *)
(***************************************************************************)
MaxCallers == 2
MaxArtworkSyncs == 1
Callers == 1..MaxCallers

\* Arguments of the explored calls: name, total_editions, default_size.
ArtworkNames == {"", "Sunset ", "Dawn", "Royal Yacht Squadron"}
EditionCounts == {0, 2, 10001}
SizeArguments == {None, "Huge"}
MaxTotalEditions == 10000
valid_sizes == {"Small", "Large", "Extra Large"}

\* A stored distributor; its commission is <<percent>> or <<>> (NULL).
DistributorRecord(id, aid, name, commission) ==
    [id |-> id, airtable_id |-> aid, name |-> name, commission_percentage |-> commission]

\* Stores the calls may find: empty, left by a sync without a Direct
\* distributor, and with one.
ArtworkStores ==
    { [ tables |-> EmptyTables,
        next_id |-> [prints |-> 1, distributors |-> 1, editions |-> 1] ],
      [ tables |-> [ prints |-> {NamedRow(1, "rec1", "Royal Yacht Squadron")},
                     distributors |-> {DistributorRecord(1, "dA", "Kendalls", <<40>>)},
                     editions |-> {} ],
        next_id |-> [prints |-> 2, distributors |-> 2, editions |-> 1] ],
      [ tables |-> [ prints |-> {NamedRow(1, "rec1", "Royal Yacht Squadron")},
                     distributors |-> {DistributorRecord(1, "dA", "Kendalls", <<40>>),
                                       DistributorRecord(2, "dD", "Direct", <<0>>)},
                     editions |-> {} ],
        next_id |-> [prints |-> 2, distributors |-> 3, editions |-> 1] ] }

\* The distributors file of the importer run: without and with a row that
\* standardizes to Direct.
ArtworkSyncDistributors == {<<>>, <<DistributorCells("dS", "direct")>>}

\* The input checks at the head of create_artwork.
ArgumentsValid(name, total_editions, default_size) ==
    /\ Strip(name) # ""
    /\ total_editions >= 1
    /\ total_editions <= MaxTotalEditions
    /\ (default_size = None \/ default_size \in valid_sizes)

Failure(error_code) == [success |-> FALSE, error_code |-> error_code]
Success(new_print, total_editions) ==
    [ success |-> TRUE, print_id |-> new_print.id, print_name |-> new_print.name,
      editions_created |-> total_editions, distributor |-> "Direct" ]

\* The except IntegrityError clause: psycopg2's text of a unique violation
\* holds the words unique (the constraint kind) and name (the statement's
\* column list); the text of a foreign-key violation has no "unique".
IntegrityErrorResult(violation) ==
    IF violation = "unique" THEN Failure("DUPLICATE_NAME") ELSE Failure("DB_ERROR")

IdleCall ==
    [ pc |-> "idle", name |-> "", total_editions |-> 0, default_size |-> None,
      txn |-> EmptyTables, direct |-> <<>>, new_print |-> <<>>, result |-> <<>>,
      before |-> EmptyTables ]

\* Variant of the rollback below that leaves the flushed rows in the tables.
KeepFlushedRows(committed, txn) ==
    [t \in TableNames |-> committed[t] \cup txn[t]]

\* get_session: session.rollback() when the block raised, session.commit()
\* when it returned.
RollbackSession(committed, txn) == committed
CommitSession(committed, txn) ==
    [t \in TableNames |-> committed[t] \cup txn[t]]

\* Variant of the query below that never finds the distributor.
NoDirectFound(tables) == {}
\* session.query(Distributor).filter(Distributor.name == 'Direct')
ExistingDirect(tables) == {d \in tables.distributors : d.name = "Direct"}

\* Another open transaction holds an uncommitted row with this name.
UncommittedElsewhere(c, table, name) ==
    \E o \in Callers \ {c} : \E r \in calls[o].txn[table] : r.name = name

\* The call leaves create_artwork with result; its session is closed.
Returned(call, result) ==
    [call EXCEPT !.pc = "returned", !.result = <<result>>, !.txn = EmptyTables]

ImporterUnchanged ==
    UNCHANGED << files, skip_indices, i, session, seen_names, valid_df, lookups,
                 batch_mappings, stats, report, post_processing_stats, today,
                 audit_doc, cleared, abortedAt, id_start, first_result, pre_settle,
                 handled, error_handler, bulk_inserts >>

\* create_artwork is called: the input checks.
CallCreateArtwork(c) ==
    /\ calls[c].pc = "idle"
    /\ \E name \in ArtworkNames : \E total_editions \in EditionCounts :
       \E default_size \in SizeArguments :
          calls' = [calls EXCEPT ![c] =
                       IF ArgumentsValid(name, total_editions, default_size)
                       THEN [@ EXCEPT !.pc = "check_name", !.name = Strip(name),
                                      !.total_editions = total_editions,
                                      !.default_size = default_size, !.before = db]
                       ELSE [Returned(@, Failure("INVALID_DATA")) EXCEPT
                                      !.name = name, !.total_editions = total_editions,
                                      !.default_size = default_size, !.before = db]]
    /\ UNCHANGED <<db, next_id, pc, run>>
    /\ ImporterUnchanged

\* The duplicate-name query; on a hit the block returns and the empty
\* session commits.
CheckDuplicateName(c) ==
    /\ calls[c].pc = "check_name"
    /\ calls' = [calls EXCEPT ![c] =
                    IF \E p \in db.prints : p.name = @.name
                    THEN Returned(@, Failure("DUPLICATE_NAME"))
                    ELSE [@ EXCEPT !.pc = "query_direct"]]
    /\ UNCHANGED <<db, next_id, pc, run>>
    /\ ImporterUnchanged

\* get_or_create_direct_distributor: the query.
QueryDirect(c) ==
    /\ calls[c].pc = "query_direct"
    /\ calls' = [calls EXCEPT ![c] =
                    IF ExistingDirect(db) # {}
                    THEN [@ EXCEPT !.pc = "insert_print",
                                   !.direct = <<CHOOSE d \in ExistingDirect(db) : TRUE>>]
                    ELSE [@ EXCEPT !.pc = "insert_direct"]]
    /\ UNCHANGED <<db, next_id, pc, run>>
    /\ ImporterUnchanged

\* get_or_create_direct_distributor: session.add and session.flush of the new
\* distributor.  A committed Direct row raises IntegrityError (unique name).
InsertDirect(c) ==
    /\ calls[c].pc = "insert_direct"
    /\ ~UncommittedElsewhere(c, "distributors", "Direct")
    /\ next_id' = [next_id EXCEPT !.distributors = @ + 1]
    /\ IF ExistingDirect(db) # {}
       THEN /\ calls' = [calls EXCEPT ![c] = Returned(@, IntegrityErrorResult("unique"))]
            /\ db' = RollbackSession(db, calls[c].txn)
       ELSE /\ LET direct == DistributorRecord(next_id.distributors,
                                               "WEB_D" \o ToString(next_id.distributors),
                                               "Direct", <<0>>)
               IN calls' = [calls EXCEPT ![c] =
                               [@ EXCEPT !.pc = "insert_print", !.direct = <<direct>>,
                                         !.txn = [@ EXCEPT !.distributors = @ \cup {direct}]]]
            /\ UNCHANGED db
    /\ UNCHANGED <<pc, run>>
    /\ ImporterUnchanged

\* The keywords of Print(...) in create_artwork.
ArtworkPrintKeywords(call) ==
    [ airtable_id |-> "WEB_P", name |-> call.name, description |-> None,
      total_editions |-> call.total_editions, image_urls |-> None, is_active |-> TRUE ]

\* session.add(new_print) and session.flush().  A committed print of the
\* same name raises IntegrityError (unique name).
InsertPrint(c) ==
    /\ calls[c].pc = "insert_print"
    /\ Constructs(PrintAttributes, ArtworkPrintKeywords(calls[c]))
    /\ ~UncommittedElsewhere(c, "prints", calls[c].name)
    /\ next_id' = [next_id EXCEPT !.prints = @ + 1]
    /\ IF \E p \in db.prints : p.name = calls[c].name
       THEN /\ calls' = [calls EXCEPT ![c] = Returned(@, IntegrityErrorResult("unique"))]
            /\ db' = RollbackSession(db, calls[c].txn)
       ELSE /\ LET new_print == NamedRow(next_id.prints,
                                         "WEB_P" \o ToString(next_id.prints),
                                         calls[c].name)
               IN calls' = [calls EXCEPT ![c] =
                               [@ EXCEPT !.pc = "build_editions", !.new_print = <<new_print>>,
                                         !.txn = [@ EXCEPT !.prints = @ \cup {new_print}]]]
            /\ UNCHANGED db
    /\ UNCHANGED <<pc, run>>
    /\ ImporterUnchanged

\* The keywords of Edition(...) in the loop of create_artwork.
ArtworkEditionKeywords(call, edition_num) ==
    [ airtable_id          |-> "WEB_" \o ToString(call.new_print[1].id) \o "_"
                                \o ToString(edition_num) \o "_UUID06",
      print_id             |-> call.new_print[1].id,
      distributor_id       |-> <<call.direct[1].id>>,
      edition_number       |-> <<edition_num>>,
      edition_display_name |-> call.name \o " - " \o ToString(edition_num),
      size                 |-> call.default_size,
      frame_type           |-> None,
      is_printed           |-> FALSE,
      is_sold              |-> FALSE,
      is_settled           |-> FALSE,
      is_stock_checked     |-> FALSE,
      status_confidence    |-> "verified",
      is_active            |-> TRUE ]

\* The rows bulk_save_objects inserts for the call.
ArtworkEditionRows(call, first_id) ==
    { [ id                   |-> first_id + n - 1,
        airtable_id          |-> ArtworkEditionKeywords(call, n).airtable_id,
        print_id             |-> call.new_print[1].id,
        distributor_id       |-> <<call.direct[1].id>>,
        edition_number       |-> <<n>>,
        edition_display_name |-> ArtworkEditionKeywords(call, n).edition_display_name,
        size                 |-> call.default_size,
        is_printed           |-> FALSE,
        is_sold              |-> FALSE,
        is_settled           |-> FALSE ] : n \in 1..call.total_editions }

\* The Direct row the editions point to is visible to the session.
DirectStillStored(call) ==
    \E d \in db.distributors \cup call.txn.distributors : d.id = call.direct[1].id

\* The edition loop, bulk_save_objects and the session's commit.  The first
\* Edition(...) raises TypeError when a keyword names no attribute of the
\* class; the exception rolls the session back and is reported as DB_ERROR.
BuildEditions(c) ==
    /\ calls[c].pc = "build_editions"
    /\ IF ~Constructs(EditionAttributes, ArtworkEditionKeywords(calls[c], 1))
       THEN /\ calls' = [calls EXCEPT ![c] = Returned(@, Failure("DB_ERROR"))]
            /\ db' = RollbackSession(db, calls[c].txn)
            /\ UNCHANGED next_id
       ELSE IF \/ ~DirectStillStored(calls[c])
               \/ \E n \in 1..calls[c].total_editions :
                     ~FitsColumns(ArtworkEditionKeywords(calls[c], n))
       THEN /\ calls' = [calls EXCEPT ![c] = Returned(@, Failure("DB_ERROR"))]
            /\ db' = RollbackSession(db, calls[c].txn)
            /\ next_id' = [next_id EXCEPT !.editions = @ + calls[c].total_editions]
       ELSE /\ calls' = [calls EXCEPT ![c] =
                            Returned(@, Success(@.new_print[1], @.total_editions))]
            /\ db' = CommitSession(db, [calls[c].txn EXCEPT !.editions =
                                           ArtworkEditionRows(calls[c], next_id.editions)])
            /\ next_id' = [next_id EXCEPT !.editions = @ + calls[c].total_editions]
    /\ UNCHANGED <<pc, run>>
    /\ ImporterUnchanged

\* The importer's clear phase commits: the three tables are emptied.
SyncClearCommit ==
    /\ pc = "idle"
    /\ run < MaxArtworkSyncs
    /\ run' = run + 1
    /\ pc' = "distributors"
    /\ db' = EmptyTables
    /\ UNCHANGED <<next_id, calls>>
    /\ ImporterUnchanged

\* The importer's distributor phase commits the rows of its file; a row whose
\* name is stored already raises IntegrityError and the run ends.
SyncDistributorsCommit ==
    /\ pc = "distributors"
    /\ \E file \in ArtworkSyncDistributors :
          LET names == {clean_distributor_data(file[j]).name : j \in DOMAIN file} IN
          /\ \A n \in names : ~\E o \in Callers :
                                   \E r \in calls[o].txn.distributors : r.name = n
          /\ IF \E d \in db.distributors : d.name \in names
             THEN /\ pc' = "aborted"
                  /\ UNCHANGED <<db, next_id>>
             ELSE /\ pc' = "done"
                  /\ db' = [db EXCEPT !.distributors =
                               @ \cup {DistributorRecord(next_id.distributors + j - 1,
                                            clean_distributor_data(file[j]).airtable_id,
                                            clean_distributor_data(file[j]).name,
                                            <<>>)
                                       : j \in DOMAIN file}]
                  /\ next_id' = [next_id EXCEPT !.distributors = @ + Len(file)]
    /\ UNCHANGED <<run, calls>>
    /\ ImporterUnchanged

InitArtwork ==
    /\ \E store \in ArtworkStores :
          /\ db = store.tables
          /\ next_id = store.next_id
          /\ id_start = store.next_id
          /\ session = [tables |-> store.tables, new |-> <<>>]
    /\ files = [prints |-> <<>>, distributors |-> <<>>, editions |-> <<>>,
                decisions |-> NoDecisionFile]
    /\ calls = [c \in Callers |-> IdleCall]
    /\ pc = "idle"
    /\ run = 0
    /\ i = 1
    /\ seen_names = {}
    /\ valid_df = <<>>
    /\ lookups = EmptyLookups
    /\ batch_mappings = <<>>
    /\ stats = ZeroStats
    /\ report = EmptyReport
    /\ skip_indices = {}
    /\ post_processing_stats = NoPostProcessing
    /\ today = 0
    /\ audit_doc = <<>>
    /\ cleared = <<>>
    /\ abortedAt = "none"
    /\ first_result = <<>>
    /\ pre_settle = {}
    /\ handled = <<>>
    /\ bulk_inserts = <<>>
    /\ error_handler = NewErrorHandler

NextArtwork ==
    \/ \E c \in Callers : CallCreateArtwork(c)
    \/ \E c \in Callers : CheckDuplicateName(c)
    \/ \E c \in Callers : QueryDirect(c)
    \/ \E c \in Callers : InsertDirect(c)
    \/ \E c \in Callers : InsertPrint(c)
    \/ \E c \in Callers : BuildEditions(c)
    \/ SyncClearCommit
    \/ SyncDistributorsCommit

ArtworkSpec == InitArtwork /\ [][NextArtwork]_vars

(***************************************************************************)
(* ImportErrorHandler (sync/error_handler.py).                             *)
(***************************************************************************)
MaxHandledErrors == 2
\* Length to which the message of an unknown error is cut.
MessageWidth == 100

\* str(error) of the exceptions handed to the handler.
ErrorTexts ==
    { "violates check constraint \"check_size\"",
      "Unknown size",
      "violates check constraint \"check_frame_type\"",
      "value too long for type character varying(20)",
      "value too long for column variation",
      "value too long: Notes",
      "duplicate key value violates unique constraint",
      "foreign key violation: print_id",
      "foreign key violation: distributor_id",
      "invalid input syntax for type numeric",
      "date/time field value out of range",
      "",
      "connection reset by peer while the statement was running; the server closed the connection unexpectedly (08006)" }
RowIndexes == {0, 7}

\* _log_error: one more of error_type, one more entry.
_log_error(handler, error_type, row_idx, message) ==
    [handler EXCEPT
        !.error_counts = IF error_type \in DOMAIN @
                         THEN [@ EXCEPT ![error_type] = @ + 1]
                         ELSE @ @@ (error_type :> 1),
        !.handled_errors = Append(@, [row |-> row_idx, type |-> error_type,
                                      message |-> message])]

\* The "value too long" branch: neither inner test holding, the method runs
\* off its end and returns None.
LongValue(handler, row_idx, error_str) ==
    IF HasSub(Lower(error_str), "variation")
    THEN [_log_error(handler, "long_variation", row_idx, "Variation field too long")
             EXCEPT !.returned = Append(@, "True")]
    ELSE IF HasSub(Lower(error_str), "notes")
    THEN [_log_error(handler, "long_notes", row_idx, "Notes field too long")
             EXCEPT !.returned = Append(@, "True")]
    ELSE [handler EXCEPT !.returned = Append(@, "None")]

\* The category and message of the branches that always log.
ErrorCategory(error_str) ==
    IF HasSub(error_str, "check_size") \/ HasSub(error_str, "Unknown")
    THEN <<"size_constraint", "Invalid size value">>
    ELSE IF HasSub(error_str, "check_frame_type")
    THEN <<"frame_constraint", "Invalid frame type">>
    ELSE IF HasSub(error_str, "duplicate key value")
    THEN <<"duplicate_edition", "Duplicate edition number">>
    ELSE IF HasSub(error_str, "foreign key violation")
    THEN (IF HasSub(error_str, "print_id")
          THEN <<"missing_print", "Print not found">>
          ELSE <<"missing_distributor", "Distributor not found">>)
    ELSE IF HasSub(error_str, "invalid input syntax for type numeric")
    THEN <<"invalid_price", "Invalid price format">>
    ELSE IF HasSub(error_str, "date/time field value out of range")
    THEN <<"invalid_date", "Invalid date format">>
    ELSE <<"unknown", SubSeq(error_str, 1, IF Len(error_str) < MessageWidth
                                           THEN Len(error_str) ELSE MessageWidth)>>

handle_edition_error(handler, row_idx, error_str) ==
    IF /\ ~(HasSub(error_str, "check_size") \/ HasSub(error_str, "Unknown"))
       /\ ~HasSub(error_str, "check_frame_type")
       /\ HasSub(error_str, "value too long")
    THEN LongValue(handler, row_idx, error_str)
    ELSE [_log_error(handler, ErrorCategory(error_str)[1], row_idx,
                     ErrorCategory(error_str)[2])
             EXCEPT !.returned = Append(@, "True")]

\* A caller hands the handler the exception of one row; handled records the
\* call.
HandleEditionError ==
    /\ pc = "handling"
    /\ Len(handled) < MaxHandledErrors
    /\ \E row_idx \in RowIndexes : \E error_str \in ErrorTexts :
          /\ error_handler' = handle_edition_error(error_handler, row_idx, error_str)
          /\ handled' = Append(handled, [src |-> row_idx, cleaned |-> error_str,
                                         decision |-> "error"])
    /\ UNCHANGED << db, next_id, files, skip_indices, pc, run, i, session, seen_names,
                    valid_df, lookups, batch_mappings, stats, report,
                    post_processing_stats, today, audit_doc, cleared, abortedAt,
                    id_start, first_result, pre_settle, calls, bulk_inserts >>

InitHandler ==
    /\ db = EmptyTables
    /\ next_id = [prints |-> 1, distributors |-> 1, editions |-> 1]
    /\ id_start = [prints |-> 1, distributors |-> 1, editions |-> 1]
    /\ session = [tables |-> EmptyTables, new |-> <<>>]
    /\ files = [prints |-> <<>>, distributors |-> <<>>, editions |-> <<>>,
                decisions |-> NoDecisionFile]
    /\ pc = "handling"
    /\ run = 0
    /\ i = 1
    /\ seen_names = {}
    /\ valid_df = <<>>
    /\ lookups = EmptyLookups
    /\ batch_mappings = <<>>
    /\ stats = ZeroStats
    /\ report = EmptyReport
    /\ skip_indices = {}
    /\ post_processing_stats = NoPostProcessing
    /\ today = 0
    /\ audit_doc = <<>>
    /\ cleared = <<>>
    /\ abortedAt = "none"
    /\ first_result = <<>>
    /\ pre_settle = {}
    /\ handled = <<>>
    /\ bulk_inserts = <<>>
    /\ calls = <<>>
    /\ error_handler = NewErrorHandler

NextHandler ==
    \/ HandleEditionError

HandlerSpec == InitHandler /\ [][NextHandler]_vars

(***************************************************************************)
(* Properties of the edition phase (EditionSpec).                          *)
(***************************************************************************)
HandledRows == {handled[k] : k \in DOMAIN handled}

\* The row was given a mapping: it has an identifier and its print resolved.
IsSubmitted(h) ==
    /\ Truthy(h.cleaned.airtable_id)
    /\ Truthy(h.cleaned.print_name)
    /\ h.cleaned.print_name \in DOMAIN lookups.prints
Submitted == {h \in HandledRows : IsSubmitted(h)}

\* An earlier stored row already holds the (print, edition number) of h.
BlockedByPrintEdition(h) ==
    /\ h.cleaned.edition_number # <<>>
    /\ \E s \in db.editions : /\ s.src < h.src
                              /\ s.print_id = lookups.prints[h.cleaned.print_name]
                              /\ s.edition_number = h.cleaned.edition_number

IsDropForPrint(h) ==
    /\ Truthy(h.cleaned.airtable_id)
    /\ Truthy(h.cleaned.print_name)
    /\ h.cleaned.print_name \notin DOMAIN lookups.prints
\* A processed row whose cleaned print name is not a key of the print lookup.
HasUnresolvedPrint(h) == h.cleaned.print_name \notin DOMAIN lookups.prints

MissingPrintEntries(rows) ==
    [k \in 1..Len(rows) |-> [edition    |-> rows[k].cleaned.edition_display_name,
                             print_name |-> rows[k].cleaned.print_name]]
NotStored(rows) ==
    \A k \in 1..Len(rows) : \A e \in db.editions : e.src # rows[k].src

IsMissingDistributorRow(h) ==
    /\ IsSubmitted(h)
    /\ Truthy(h.cleaned.distributor_name)
    /\ h.cleaned.distributor_name \notin DOMAIN lookups.distributors
\* The Distributor cell of the row holds text.
HasDistributorText(h) ==
    Get(files.editions[h.src], "Distributor") \notin {None, NaN, ""}
\* The row has distributor text and no stored distributor carries its name.
IsUnmatchedTextRow(h) ==
    /\ IsSubmitted(h)
    /\ HasDistributorText(h)
    /\ ~\E d \in db.distributors : d.name = h.cleaned.distributor_name
DisplayNames(rows) == [k \in 1..Len(rows) |-> rows[k].cleaned.edition_display_name]
ExpectedDistributorId(h) ==
    IF /\ Truthy(h.cleaned.distributor_name)
       /\ h.cleaned.distributor_name \in DOMAIN lookups.distributors
    THEN <<lookups.distributors[h.cleaned.distributor_name]>>
    ELSE <<>>

\* C3 (as amended): a stored edition has distributor_id null exactly when its
\* standardized distributor name is empty (no text, or text such as 'checked'
\* that standardizes to nothing) or is not a key of the distributor lookup;
\* editions_missing_distributor holds exactly one entry per submitted row whose
\* standardized name is non-empty and not a key, and no other entry.
C3_NullDistributorAndReport ==
    /\ \A e \in db.editions : \A h \in HandledRows :
          h.src = e.src => e.distributor_id = ExpectedDistributorId(h)
    /\ report.editions_missing_distributor =
           DisplayNames(SelectSeq(handled, IsMissingDistributorRow))

\* C3 as stated: the rows with distributor text that matches no stored
\* distributor are the ones with an entry.
C3_EveryUnmatchedTextReported ==
    report.editions_missing_distributor = DisplayNames(SelectSeq(handled, IsUnmatchedTextRow))

\* A row without distributor text and a row with unmatched text are both
\* stored with a null distributor, with one report entry in all.
C3_Witness ==
    /\ pc = "settle"
    /\ \E e1, e2 \in db.editions : \E h1, h2 \in HandledRows :
          /\ h1.src = e1.src /\ h2.src = e2.src
          /\ ~HasDistributorText(h1) /\ IsMissingDistributorRow(h2)
          /\ e1.distributor_id = <<>> /\ e2.distributor_id = <<>>
    /\ Len(report.editions_missing_distributor) = 1

\* The settlement rule has run in this run.
SettlementDone ==
    \/ pc \in {"legacy", "report", "done"}
    \/ pc = "aborted" /\ abortedAt = "legacy"

\* C7: after _mark_old_sales_as_settled every edition that was sold, not
\* settled and sold more than 180 days before the run date is settled, and
\* every edition sold 180 days before the run date or later keeps its
\* is_settled value.
C7_OldSalesSettled ==
    SettlementDone =>
        \A e \in pre_settle : \E f \in db.editions :
            /\ f.id = e.id
            /\ (e.is_sold /\ ~e.is_settled /\ e.date_sold # <<>>
                    /\ today - e.date_sold[1] > 180) => f.is_settled
            /\ (e.date_sold # <<>> /\ today - e.date_sold[1] <= 180)
                    => f.is_settled = e.is_settled

\* The rule has just run on an unsettled sale of 181 days, now settled, and on
\* an unsettled sale of exactly 180 days, still unsettled.
C7_Witness ==
    /\ pc = "legacy"
    /\ \E e1, e2 \in pre_settle : \E f1, f2 \in db.editions :
          /\ f1.id = e1.id /\ f2.id = e2.id
          /\ e1.is_sold /\ ~e1.is_settled /\ e1.date_sold # <<>>
          /\ today - e1.date_sold[1] = 181 /\ f1.is_settled
          /\ e2.is_sold /\ ~e2.is_settled /\ e2.date_sold # <<>>
          /\ today - e2.date_sold[1] = 180 /\ ~f2.is_settled

\* The post-processing of the run has ended, normally or by an exception of
\* the Direct Old rule.
PostProcessingOver ==
    \/ pc = "done"
    \/ pc = "aborted" /\ abortedAt = "legacy"
LinkedToDirectOld(e) ==
    \E d \in db.distributors : ILikeDirectOld(d.name) /\ e.distributor_id = <<d.id>>

\* C8 as stated: after the post-processing every stored edition linked to a
\* distributor named 'Direct Old' (case-insensitively) has status_confidence
\* 'legacy_unknown' and every other stored edition has 'verified'.
C8_StatusConfidenceSet ==
    PostProcessingOver =>
        \A e \in db.editions :
            StatusConfidence(e) = IF LinkedToDirectOld(e) THEN "legacy_unknown"
                                  ELSE "verified"

(***************************************************************************)
(* Properties of the full reconciliation (Spec).                           *)
(***************************************************************************)
RunOver == pc \in {"done", "aborted"}

\* C4: when sync_all has run twice in succession on the same three batches and
\* the same duplicate-decision table, the store has the same Print, Distributor
\* and Edition row counts and the same sets of print and distributor names as
\* after the first run.
C4_SecondRunSameSummary ==
    (run >= 2 /\ RunOver) => first_result = <<Summary(db)>>

\* Both runs went to their end and left distributors in a store that was not
\* empty before the first run.
C4_Witness ==
    /\ run = 2 /\ pc = "done"
    /\ first_result # <<>>
    /\ db.distributors # {}
    /\ next_id.distributors > 3

\* The row received its key in the present run.
CreatedInRun(table, row) == row.id >= id_start[table]
RecordIds(rows) == {Get(rows[k], "Record_id") : k \in DOMAIN rows}

\* C5: when sync_all completes, every stored Print, Distributor and Edition
\* row was created in this run from its input batches; no row that was in the
\* store before the run remains.
C5_NoPriorRowRemains ==
    pc = "done" =>
        /\ \A t \in TableNames : \A r \in db[t] : CreatedInRun(t, r)
        /\ \A d \in db.distributors : d.airtable_id \in RecordIds(files.distributors)
        /\ \A p \in db.prints : p.airtable_id \in RecordIds(files.prints)
        /\ \A e \in db.editions : e.src \in DOMAIN files.editions

\* A run over a store that held a print, a distributor and an edition has
\* completed and stored a distributor of its own.
C5_Witness ==
    /\ pc = "done"
    /\ id_start.prints > 1 /\ id_start.distributors > 1 /\ id_start.editions > 1
    /\ db.distributors # {}

\* C6: the clear phase deletes Edition, then Distributor, then Print; while it
\* runs, no edition of the session refers to a deleted print or distributor,
\* no delete is refused, and the committed store never holds such an edition.
C6_ClearChildToParent ==
    /\ \E n \in 0..3 : cleared = SubSeq(<<"editions", "distributors", "prints">>, 1, n)
    /\ pc = "clear" => Dangling(session.tables) = {}
    /\ abortedAt # "clear"
    /\ Dangling(db) = {}

\* Editions and distributors of a populated store are deleted in the session,
\* the prints are still there.
C6_Witness ==
    /\ pc = "clear"
    /\ cleared = <<"editions", "distributors">>
    /\ db.editions # {}
    /\ session.tables.editions = {} /\ session.tables.distributors = {}
    /\ session.tables.prints # {}

PrintPhaseOver ==
    pc \in {"distributors", "lookups", "editions", "settle", "legacy", "report", "done"}
CleanedPrintName(j) == clean_print_data(files.prints[j]).name
CleanedPrintId(j) == clean_print_data(files.prints[j]).airtable_id
Importable(j) == Truthy(CleanedPrintId(j)) /\ Truthy(CleanedPrintName(j))
FirstOfItsName(j) ==
    /\ Importable(j)
    /\ \A k \in 1..(j - 1) : Importable(k) => CleanedPrintName(k) # CleanedPrintName(j)

\* C9 as stated: after _sync_prints_smart the store holds, for each canonical
\* full name of the batch, the Print built from the first row that cleans to
\* that name, and no other Print; every later row of that name is counted as
\* skipped and listed in duplicate_prints_skipped.
C9_FirstRowPerNameStored ==
    PrintPhaseOver =>
        /\ \A j \in DOMAIN files.prints :
              FirstOfItsName(j) =>
                  \E p \in db.prints : /\ p.name = CleanedPrintName(j)
                                       /\ p.airtable_id = CleanedPrintId(j)
        /\ \A p1, p2 \in db.prints : p1.name = p2.name => p1 = p2
        /\ Len(report.duplicate_prints_skipped) =
               Cardinality({j \in DOMAIN files.prints :
                               Importable(j) /\ ~FirstOfItsName(j)})

\* C10 as stated: a failing row of the print or distributor phase never aborts
\* the run.
C10_RowFailureDoesNotAbort ==
    ~(pc = "aborted" /\ abortedAt \in {"prints", "distributors"})

(***************************************************************************)
(* Properties of the duplicate resolver, of failures and of phase order.   *)
(***************************************************************************)
\* The decisions file exists, has its columns, and lists idx with action SKIP.
HasSkipDecision(idx) ==
    /\ files.decisions # <<>>
    /\ \A k \in DOMAIN files.decisions[1] :
          {"index", "action"} \subseteq DOMAIN files.decisions[1][k]
    /\ \E k \in DOMAIN files.decisions[1] :
          /\ files.decisions[1][k]["index"] = idx
          /\ files.decisions[1][k]["action"] = "SKIP"
\* Row j of the editions file passes the display-name filter.
HasEditionDisplay(j) == Get(files.editions[j], "Print - Edition") \notin {" - ", NaN}
\* The row loop of the edition phase has ended.
RowLoopOver ==
    \/ pc \in {"settle", "legacy", "report", "done"}
    \/ pc = "aborted" /\ abortedAt \in {"editions", "legacy"}
EditionsRead == pc = "editions" \/ RowLoopOver

\* C11: an edition row (with a display name) is left out of cleaning and
\* insertion exactly when its 0-based row index has action SKIP in the
\* decisions file; rows with KEEP or without decision are all processed by the
\* end of the row loop, and with an absent or unloadable file none is left out.
C11_SkippedIffDecisionSkip ==
    /\ EditionsRead =>
          \A j \in DOMAIN files.editions :
              HasEditionDisplay(j) =>
                  ((\E k \in DOMAIN valid_df : valid_df[k] = j) <=> ~HasSkipDecision(j - 1))
    /\ \A h \in HandledRows : ~HasSkipDecision(h.src - 1)
    /\ RowLoopOver =>
          \A j \in DOMAIN files.editions :
              (HasEditionDisplay(j) /\ ~HasSkipDecision(j - 1))
                  => \E h \in HandledRows : h.src = j

\* Three rows with display names, KEEP on the first and SKIP on the second:
\* the loop has ended having processed the first and the third.
C11_Witness ==
    /\ pc = "settle"
    /\ files.decisions = KeepFirstSkipSecond
    /\ Len(files.editions) = 3
    /\ \A j \in 1..3 : HasEditionDisplay(j)
    /\ {h.src : h \in HandledRows} = {1, 3}

\* C12: in every state of a sync, no two stored editions with a known edition
\* number share the same (print, edition number) pair, whatever identifiers
\* the input rows carry.
C12_PrintEditionPairUnique ==
    \A e1, e2 \in db.editions :
        (/\ e1.edition_number # <<>>
         /\ e1.print_id = e2.print_id
         /\ e1.edition_number = e2.edition_number) => e1 = e2

\* Two rows with different identifiers and the same print and edition number
\* were both submitted; the phase has ended and one of them is stored.
C12_Witness ==
    /\ pc = "settle"
    /\ \E h1, h2 \in Submitted :
          /\ h1.cleaned.airtable_id # h2.cleaned.airtable_id
          /\ h1.cleaned.print_name = h2.cleaned.print_name
          /\ h1.cleaned.edition_number # <<>>
          /\ h1.cleaned.edition_number = h2.cleaned.edition_number
          /\ \E e \in db.editions : e.src = h1.src
          /\ ~\E e \in db.editions : e.src = h2.src

\* A full batch stays in batch_mappings only when its bulk insert raised: a
\* successful insert empties the list.
FullBatchInsertFailed == Len(batch_mappings) >= batch_size

\* C13 as stated: a bulk edition insert that fails is not attempted again and
\* ends the run, for a full batch inside the row loop as for the final batch.
C13_FailedInsertEndsRun ==
    FullBatchInsertFailed => (pc = "aborted" /\ abortedAt = "editions")

\* The run ended with an exception of the final bulk insert.
AbortedInEditionPhase == pc = "aborted" /\ abortedAt = "editions"

\* C14: when the run aborts in the edition phase, the prints and distributors
\* read at the start of the phase are still stored, and so is every edition
\* inserted by the batches before the failing one: the table holds as many
\* rows as were counted as created, each from a row of an earlier batch.
C14_EarlierCommitsPersist ==
    AbortedInEditionPhase =>
        /\ \A n \in DOMAIN lookups.prints :
              \E p \in db.prints : p.name = n /\ p.id = lookups.prints[n]
        /\ \A n \in DOMAIN lookups.distributors :
              \E d \in db.distributors : d.name = n /\ d.id = lookups.distributors[n]
        /\ Cardinality(db.editions) = stats.editions.created
        /\ \A e \in db.editions :
              /\ \E h \in Submitted : h.src = e.src
              /\ \A k \in DOMAIN batch_mappings : batch_mappings[k].src # e.src

\* A first batch of two editions was committed, then the insert of the last
\* batch raised and ended the run.
C14_Witness ==
    /\ AbortedInEditionPhase
    /\ stats.editions.created = batch_size
    /\ Cardinality(db.editions) = batch_size
    /\ Len(batch_mappings) = 1
    /\ db.prints # {} /\ db.distributors # {}

\* The phases of sync_all in the order of the method.
PhaseSequence ==
    <<"clear", "prints", "distributors", "lookups", "editions", "settle", "legacy",
      "report", "done">>
PhaseRank(p) == CHOOSE k \in DOMAIN PhaseSequence : PhaseSequence[k] = p
InPhase(p) == \E k \in DOMAIN PhaseSequence : PhaseSequence[k] = p

\* A step keeps the phase, moves to the next phase, ends the run with an
\* exception, or starts a new run with the clear phase.
StepInPhaseOrder ==
    \/ pc' = pc
    \/ pc' = "aborted" /\ InPhase(pc)
    \/ pc \in {"idle", "done", "aborted"} /\ pc' = "clear"
    \/ InPhase(pc) /\ InPhase(pc') /\ PhaseRank(pc') = PhaseRank(pc) + 1

\* The lookups are written by the step that leaves phase "lookups", with no
\* print or distributor pending in a session, and reset when a run starts.
LookupsReadAfterCommits ==
    lookups' # lookups =>
        \/ pc = "lookups" /\ session.new = <<>>
        \/ pc' = "clear"

\* The document is written by the step that leaves phase "report", when both
\* post-processing rules have left their result.
ReportWrittenLast ==
    audit_doc' # audit_doc =>
        /\ pc = "report" /\ pc' = "done"
        /\ post_processing_stats.old_sales_settled # <<>>
        /\ post_processing_stats.direct_old_marked # <<>>

\* What the lookups hold is what the print and distributor phases committed.
LookupsAreCommittedRows ==
    EditionsRead =>
        /\ DOMAIN lookups.prints = {p.name : p \in db.prints}
        /\ \A p \in db.prints : lookups.prints[p.name] = p.id
        /\ DOMAIN lookups.distributors = {d.name : d \in db.distributors}
        /\ \A d \in db.distributors : lookups.distributors[d.name] = d.id

\* When the post-processing starts, every row of the file has been handled and
\* every submitted row is stored or was ignored as a duplicate.
PostProcessingAfterLastBatch ==
    pc \in {"settle", "legacy", "report", "done"} =>
        /\ Len(handled) = Len(valid_df)
        /\ stats.editions.created + stats.editions.duplicates_ignored
               = Cardinality(Submitted)
        /\ Cardinality(db.editions) = stats.editions.created

\* C15: in every execution of sync_all the phases follow the order clear,
\* prints, distributors, lookups, edition batches, auto-settlement, Direct Old
\* rule, report document; the lookups are read after both imports have
\* committed, the rules run after the last edition batch has committed, and the
\* document is written after both rules.
C15_PhaseOrder ==
    /\ [](LookupsAreCommittedRows /\ PostProcessingAfterLastBatch)
    /\ [][StepInPhaseOrder /\ LookupsReadAfterCommits /\ ReportWrittenLast]_vars

\* A first run went through all phases: tables cleared, distributors stored,
\* both rules done, document written.
C15_Witness ==
    /\ pc = "done" /\ run = 1
    /\ Len(cleared) = 3
    /\ db.distributors # {}
    /\ Len(handled) = 1
    /\ post_processing_stats.direct_old_marked = <<0>>
    /\ audit_doc # <<>>

DistributorPhaseOver ==
    pc \in {"lookups", "editions", "settle", "legacy", "report", "done"}
\* Rows of the prints and distributors files whose cleaned record lacks the
\* external identifier or the name.
IncompletePrintRows == {j \in DOMAIN files.prints : ~Importable(j)}
IncompleteDistributor(j) ==
    \/ ~Truthy(clean_distributor_data(files.distributors[j]).airtable_id)
    \/ ~Truthy(clean_distributor_data(files.distributors[j]).name)
IncompleteDistributorRows == {j \in DOMAIN files.distributors : IncompleteDistributor(j)}
EditionsWithoutId == {h \in HandledRows : ~Truthy(h.cleaned.airtable_id)}

\* C16 as stated: in each import phase the rows that lack the external
\* identifier (or, for prints and distributors, the cleaned name) are not
\* stored and are counted in the phase's skipped or failed statistics, and the
\* phase goes on to its end.
C16_IncompleteRowsCounted ==
    /\ PrintPhaseOver =>
          stats.prints.skipped >= Cardinality(IncompletePrintRows)
    /\ DistributorPhaseOver =>
          stats.distributors.skipped >= Cardinality(IncompleteDistributorRows)
    /\ RowLoopOver =>
          stats.editions.skipped + stats.editions.failed
              >= Cardinality(EditionsWithoutId)

\* _sync_editions_smart returned its statistics.
EditionPhaseReturned ==
    \/ pc \in {"settle", "legacy", "report", "done"}
    \/ pc = "aborted" /\ abortedAt = "legacy"
CountedRows ==
    stats.editions.created + stats.editions.duplicates_ignored
        + stats.editions.skipped + stats.editions.failed

InsertsHolding(src) ==
    {n \in DOMAIN bulk_inserts :
        \E k \in DOMAIN bulk_inserts[n] : bulk_inserts[n][k] = src}

\* The edition phase is over: the method returned or its final insert raised.
EditionPhaseEnded ==
    \/ EditionPhaseReturned
    \/ pc = "aborted" /\ abortedAt = "editions"

\* C30: every edition row that passed identifier and print resolution is
\* handed to storage in exactly one bulk insert: never in two different ones,
\* and in one when the phase has ended.
C30_EachAcceptedRowSubmittedOnce ==
    \A h \in Submitted :
        /\ Cardinality(InsertsHolding(h.src)) <= 1
        /\ EditionPhaseEnded => Cardinality(InsertsHolding(h.src)) = 1

(***************************************************************************)
(* Properties of the cleaner (CleanerSpec).                                *)
(***************************************************************************)
CleanedEditions == {k \in DOMAIN handled : handled[k].decision = "edition"}
CleanedPrints == {k \in DOMAIN handled : handled[k].decision = "print"}
RawEdition(k) == files.editions[handled[k].src]
RawPrint(k) == files.prints[handled[k].src]

\* C17: every cleaned edition record has its size among Small, Large and
\* Extra Large and its frame_type among Framed, Tube only and Mounted, a
\* missing or unrecognized cell giving Small and Framed.
C17_SizeAndFrameAlwaysAllowed ==
    \A k \in CleanedEditions :
        /\ handled[k].cleaned.size \in {"Small", "Large", "Extra Large"}
        /\ handled[k].cleaned.frame_type \in {"Framed", "Tube only", "Mounted"}

\* A raw cell that names one of the allowed values, so that no default is
\* substituted for it.
SizeRecognized(value) ==
    /\ Truthy(value)
    /\ \/ HasSub(Lower(Strip(Str(value))), "large")
       \/ Lower(Strip(Str(value))) = "small"
FrameRecognized(value) ==
    /\ Truthy(value)
    /\ Lower(Strip(Str(value))) \in {"ikea", "b&q", "framed", "frame", "tube", "tube only",
                                      "tubed", "mounted", "mount", "unmounted"}
SizeDefaulted == {k \in CleanedEditions : ~SizeRecognized(Get(RawEdition(k), "Size"))}
FrameDefaulted == {k \in CleanedEditions : ~FrameRecognized(Get(RawEdition(k), "Frame"))}

\* C18: the defaults_applied counter of a field counts exactly the cleaned rows
\* whose raw value was missing or unrecognized, one per row, and no row whose
\* raw value was recognized.
C18_DefaultsCountedOncePerSubstitution ==
    /\ report.defaults_applied.size = Cardinality(SizeDefaulted)
    /\ report.defaults_applied.frame_type = Cardinality(FrameDefaulted)

\* The cleaned edition rows whose Date Sold cell holds the text 1920.
HasNineteenTwenty(value) == Truthy(value) /\ HasSub(Str(value), "1920")
CorrectedDates == {k \in CleanedEditions : HasNineteenTwenty(Get(RawEdition(k), "Date Sold"))}

\* C19: a date cell containing 1920 is parsed as the same text with 2020 in
\* its place and adds one entry to the report's date_corrections; a cell
\* without 1920 adds none.
C19_DateCorrectionRecorded ==
    /\ \A k \in CorrectedDates :
           handled[k].cleaned.date_sold =
               parse_date(ReplaceAll(Get(RawEdition(k), "Date Sold"), "1920", "2020"))
    /\ Len(report.date_corrections) = Cardinality(CorrectedDates)

\* C20: get_print_names applied to the full name it returned for a non-empty
\* raw name returns the same (short_name, full_name) pair, for a name of the
\* static table and for a name of the title-casing fallback.
C20_PrintNamesIdempotent ==
    \A k \in CleanedPrints :
        Truthy(handled[k].cleaned.name) =>
            get_print_names(handled[k].cleaned.name)
                = <<handled[k].cleaned.short_name, handled[k].cleaned.name>>

\* A display text of the form <Name> - <n>: where its " - " stands, with a
\* signed integer after it and a name before it.
IsSignedInteger(t) ==
    \/ AllDigits(t)
    \/ Len(t) > 1 /\ Char(t, 1) = "-" /\ AllDigits(Rest(t))
NumberStarts(s) ==
    {p \in 2..(Len(s) - 3) : /\ SubSeq(s, p, p + 2) = " - "
                             /\ IsSignedInteger(SubSeq(s, p + 3, Len(s)))}
HasNameNumberForm(s) == NumberStarts(s) # {}
FirstNumberStart(s) == CHOOSE p \in NumberStarts(s) : \A q \in NumberStarts(s) : p <= q
FormName(s) == SubSeq(s, 1, FirstNumberStart(s) - 1)
FormNumber(s) == IntTextValue(SubSeq(s, FirstNumberStart(s) + 3, Len(s)))
DisplayOf(k) == Get(RawEdition(k), "Print - Edition")
NumberedDisplays == {k \in CleanedEditions : HasNameNumberForm(DisplayOf(k))}

\* C21: a row whose display reads <Name> - <n>, n negative, zero or positive,
\* is cleaned to edition_number n and to the canonical full name of <Name>,
\* whatever its other columns hold.
C21_NameAndNumberFromDisplay ==
    \A k \in NumberedDisplays :
        /\ handled[k].cleaned.edition_number = <<FormNumber(DisplayOf(k))>>
        /\ handled[k].cleaned.print_name = standardize_print_name(FormName(DisplayOf(k)))

UnnumberedDisplays ==
    {k \in CleanedEditions : ~PatternMatches(Strip(DisplayOf(k)))}

\* C22: a row whose display does not end in the -<integer> pattern is cleaned
\* to the canonical name of its Print column and to an unknown edition number.
C22_FallbackToPrintColumn ==
    \A k \in UnnumberedDisplays :
        /\ handled[k].cleaned.print_name = standardize_print_name(Get(RawEdition(k), "Print"))
        /\ handled[k].cleaned.edition_number = <<>>

\* C23: no normalizer leaves by an exception, whatever the raw cell: every
\* cleaned row carries typed or unknown values, and clean_integer gives
\* unknown for a numeric-looking text it cannot convert.
C23_NormalizersNeverRaise ==
    \A k \in DOMAIN handled :
        /\ handled[k].decision # "raised"
        /\ handled[k].decision = "print" /\ IsExponentText(Get(RawPrint(k), "Total Editions"))
               => \/ handled[k].cleaned.total_editions = <<>>
                  \/ ~FloatIsInfinite(Get(RawPrint(k), "Total Editions"))

(***************************************************************************)
(* Properties of create_artwork (ArtworkSpec).                             *)
(***************************************************************************)
DirectRows(tables) == {d \in tables.distributors : d.name = "Direct"}
HasReturned(c) == calls[c].pc = "returned"
Succeeded(c) == HasReturned(c) /\ calls[c].result[1].success
FailedWith(c, code) ==
    HasReturned(c) /\ ~calls[c].result[1].success /\ calls[c].result[1].error_code = code

\* The step in which the call of c gets its distributor from
\* get_or_create_direct_distributor.
GetsDirect(c) == calls[c].direct = <<>> /\ calls'[c].direct # <<>>
ReturnsExistingDirect ==
    \A c \in Callers :
        /\ calls[c].pc = "query_direct" /\ calls'[c].pc # "query_direct" =>
               IF DirectRows(db) # {}
               THEN /\ GetsDirect(c)
                    /\ calls'[c].direct[1] \in DirectRows(db)
                    /\ calls'[c].txn = calls[c].txn
               ELSE calls'[c].pc = "insert_direct" /\ calls'[c].direct = <<>>
        /\ calls[c].pc = "insert_direct" /\ GetsDirect(c) =>
               /\ calls'[c].direct[1].name = "Direct"
               /\ calls'[c].direct[1].commission_percentage = <<0>>
               /\ calls'[c].txn.distributors = {calls'[c].direct[1]}
               /\ DirectRows(db) = {}
SuccessLeavesOneDirect ==
    \A c \in Callers :
        (~Succeeded(c) /\ calls'[c].pc = "returned" /\ calls'[c].result[1].success)
            => Cardinality(DirectRows(db')) = 1

ValidFreshCall(c) ==
    /\ HasReturned(c)
    /\ ArgumentsValid(calls[c].name, calls[c].total_editions, calls[c].default_size)
    /\ ~\E p \in calls[c].before.prints : p.name = calls[c].name
    /\ \A o \in Callers \ {c} : calls[o].name # calls[c].name
    /\ run = 0
EditionsOfCall(c) ==
    {e \in db.editions : \E p \in db.prints : p.name = calls[c].name /\ p.id = e.print_id}

\* C25: create_artwork with an unused non-empty name and 1 <= N <= 10000
\* returns success with editions_created = N and stores one new print and its
\* editions 1..N, each unprinted, unsold, unsettled and linked to Direct.
C25_ValidCallCreatesArtwork ==
    \A c \in Callers :
        ValidFreshCall(c) =>
            /\ Succeeded(c)
            /\ calls[c].result[1].editions_created = calls[c].total_editions
            /\ Cardinality({p \in db.prints : p.name = calls[c].name}) = 1
            /\ {e.edition_number : e \in EditionsOfCall(c)}
                   = {<<n>> : n \in 1..calls[c].total_editions}
            /\ \A e \in EditionsOfCall(c) :
                   /\ ~e.is_printed /\ ~e.is_sold /\ ~e.is_settled
                   /\ \E d \in DirectRows(db) : e.distributor_id = <<d.id>>

\* The call of c returned success = false.
Failed(c) == HasReturned(c) /\ ~calls[c].result[1].success
ReturnsFailure(c) ==
    /\ calls[c].pc # "returned"
    /\ calls'[c].pc = "returned"
    /\ ~calls'[c].result[1].success
\* The rows the call of c flushed: its print and the distributor it created.
FlushedIds(c) ==
    [ prints       |-> {calls[c].new_print[k].airtable_id : k \in DOMAIN calls[c].new_print},
      distributors |-> {calls[c].direct[k].airtable_id : k \in DOMAIN calls[c].direct}
                          \cap {"WEB_D" \o ToString(n) : n \in 1..next_id.distributors} ]
NothingOfFailedCallStored ==
    \A c \in Callers :
        Failed(c) =>
            /\ ~\E p \in db.prints : p.airtable_id \in FlushedIds(c).prints
            /\ ~\E d \in db.distributors : d.airtable_id \in FlushedIds(c).distributors
            /\ ~\E e \in db.editions : \E k \in DOMAIN calls[c].new_print :
                   e.print_id = calls[c].new_print[k].id
            /\ run = 0 => db = calls[c].before

\* C27: a create_artwork call that returns success = false (INVALID_DATA,
\* DUPLICATE_NAME or DB_ERROR) leaves the stored prints, distributors and
\* editions as they were: its print, its editions and the Direct distributor
\* it created do not persist.
C27_FailureStoresNothing ==
    /\ []NothingOfFailedCallStored
    /\ [][\A c \in Callers : ReturnsFailure(c) => db' = db]_vars
\* A call failed with DB_ERROR after flushing a print and a new Direct row.
C27_Witness ==
    \E c \in Callers :
        /\ FailedWith(c, "DB_ERROR")
        /\ FlushedIds(c).prints # {}
        /\ FlushedIds(c).distributors # {}

\* The call of c passed the input checks and has returned.
CheckedCall(c) ==
    /\ HasReturned(c)
    /\ ArgumentsValid(calls[c].name, calls[c].total_editions, calls[c].default_size)
NameUnusedBefore(c) == ~\E p \in calls[c].before.prints : p.name = calls[c].name
NameStoredByAnother(c) ==
    \E p \in db.prints : p.name = calls[c].name /\ p.airtable_id \notin FlushedIds(c).prints

\* C28: with create_artwork calls interleaved in any way, a call returns
\* DUPLICATE_NAME exactly when a print of its name is stored as its
\* transaction ends; of two calls with the same unused name one succeeds and
\* the other returns DUPLICATE_NAME, and two calls with different unused
\* names do not return DUPLICATE_NAME.
C28_DuplicateNameIffNameTaken ==
    run = 0 =>
        /\ \A c \in Callers :
               CheckedCall(c) => (FailedWith(c, "DUPLICATE_NAME") <=> NameStoredByAnother(c))
        /\ \A c \in Callers : \A o \in Callers \ {c} :
               (CheckedCall(c) /\ CheckedCall(o) /\ NameUnusedBefore(c) /\ NameUnusedBefore(o))
                   => IF calls[c].name = calls[o].name
                      THEN \/ Succeeded(c) /\ FailedWith(o, "DUPLICATE_NAME")
                           \/ Succeeded(o) /\ FailedWith(c, "DUPLICATE_NAME")
                      ELSE ~FailedWith(c, "DUPLICATE_NAME") /\ ~FailedWith(o, "DUPLICATE_NAME")

(***************************************************************************)
(* Properties of the error handler (HandlerSpec).                          *)
(***************************************************************************)
CountedErrors ==
    LET counts == error_handler.error_counts IN
    IF DOMAIN counts = {} THEN 0
    ELSE LET RECURSIVE Sum(_)
             Sum(S) == IF S = {} THEN 0
                       ELSE LET t == CHOOSE t \in S : TRUE IN counts[t] + Sum(S \ {t})
         IN Sum(DOMAIN counts)

\* C26: for every exception, whatever its message, handle_edition_error
\* returns True, appends one entry with the row index and a message to
\* handled_errors, and adds one to exactly one category counter.
C26_EveryErrorHandledOnce ==
    /\ Len(error_handler.returned) = Len(handled)
    /\ \A k \in DOMAIN error_handler.returned : error_handler.returned[k] = "True"
    /\ Len(error_handler.handled_errors) = Len(handled)
    /\ \A k \in DOMAIN error_handler.handled_errors :
           k \in DOMAIN handled => error_handler.handled_errors[k].row = handled[k].src
    /\ CountedErrors = Len(handled)
====
